---- MODULE Spec2Model ----
(***************************************************************************)
(* Model of libot's run loop / dispatcher (src/src/lib.rs).                *)
(*                                                                         *)
(* The primary stream is a finite sequence of decoded-or-failed records.   *)
(* run_with_event_stream maps every record to a spawned task and joins the *)
(* tasks with for_each_concurrent(None, ..).  A task of a GameStart event  *)
(* with an id opens the per-game stream and runs run_with_game_event_stream*)
(* inside itself.  Tasks are scheduled by the runtime in any order; a      *)
(* panic inside a task surfaces as an Err on its join handle, which the    *)
(* joining loop unwraps.                                                   *)
(***************************************************************************)
EXTENDS Naturals, Sequences, FiniteSets, TLC

VARIABLES
    botId,      \* bot_id: the UserId handed to run_with_event_stream
    evStream,   \* event_stream: the records of the primary stream, in wire order
    evPos,      \* number of records the top-level loop has taken off evStream
    evLoop,     \* run_with_event_stream: "running", "done" (returned), "panicked"
    units,      \* units[i]: the task spawned for evStream[i]
    games,      \* games[i]: the run_with_game_event_stream nested in units[i]
    botEvents,  \* top-level callback invocations, in the order they were entered
    requests,   \* requests sent with client.send_request, in order
    probe       \* one call of a pure function: its name, argument and result

dispatchVars == <<botId, evStream, evPos, evLoop, units, games, botEvents, requests>>
vars == <<dispatchVars, probe>>

----------------------------------------------------------------------------
(* Bounds of the model *)

\* longest primary stream
MaxEvents == 2
\* records read off per-game streams, all games together
MaxGameRecords == 3

----------------------------------------------------------------------------
(* Values *)

\* Option::None of an id
NoId == "none"
Users == {"u1", "u2", "u3"}
\* the ids the bot of the dispatcher model may have
BotIds == {"u1", "u2"}
SeatIds == {NoId} \cup Users
GameIds == {"g1", "g2"}
\* the game ids the primary stream of the dispatcher model carries
StreamGameIds == {"g1"}

Range(s) == {s[k] : k \in 1..Len(s)}

\* a record of the primary stream that failed to decode: Err(e)
BotDecodeErr == [type |-> "Err", id |-> NoId]

\* enum BotEvent; a GameStartFinish carries an optional game id
BotEvent ==
    [type : {"GameStart"}, id : StreamGameIds \cup {NoId}]
        \cup [type : {"GameFinish"}, id : StreamGameIds]
        \cup [type : {"Challenge", "ChallengeCanceled", "ChallengeDeclined"}, id : {"c1"}]

BotRecords == BotEvent \cup {BotDecodeErr}

\* struct GameInfo, reduced to its id and the ids of the two seats
GameInfo == [id : GameIds, white : SeatIds, black : SeatIds]
NoInfo == [id |-> NoId, white |-> NoId, black |-> NoId]

\* GameStateEvent::status of the states the streams carry: "s2" is the state
\* of a game that is over
StatusOfState(state) ==
    CASE state = "s0" -> "Created"
      [] state = "s1" -> "Started"
      [] state = "s2" -> "Mate"
      [] OTHER -> "-"

\* GameEvent::GameState(state)
GameStateEv(state) == [type |-> "GameState", info |-> NoInfo, state |-> state]

\* the infos the per-game streams of the dispatcher model carry
StreamInfos == {i \in GameInfo : i.id = "g1" /\ i.white = "u1" /\ i.black \in {NoId, "u2"}}

\* enum GameEvent; GameFull carries the info and the first state
GameEvent ==
    [type : {"GameFull"}, info : StreamInfos, state : {"s0"}]
        \cup {GameStateEv("s1"), GameStateEv("s2"),
              [type |-> "ChatLine", info |-> NoInfo, state |-> "-"],
              [type |-> "OpponentGone", info |-> NoInfo, state |-> "-"]}

\* a record of a per-game stream that failed to decode
GameDecodeErr == [type |-> "Err", info |-> NoInfo, state |-> "-"]
\* the stream yielding None
EndOfStream == [type |-> "End", info |-> NoInfo, state |-> "-"]

GameRecords == GameEvent \cup {GameDecodeErr}

\* a BotContext that does not carry the id it was created with
BotContextOfNobody(bot_id) == [bot_id |-> NoId]

\* struct BotContext
BotContext(bot_id) == [bot_id |-> bot_id]

\* no GameContext assigned yet (let game_context;)
NoContext == [bot_id |-> NoId, bot_color |-> "None", info |-> NoInfo]

EVENT_PATH == "/stream/event"

game_event_path(game_id) == "/bot/game/stream/" \o game_id

\* color_of with a seat that has no id matching every user
color_of_absent_matches(user_id, game_info) ==
    LET is_white == game_info.white = NoId \/ game_info.white = user_id
        is_black == game_info.black = NoId \/ game_info.black = user_id
    IN  IF is_white THEN "White"
        ELSE IF is_black THEN "Black"
        ELSE "None"

\* color_of with the two tests in the other order
color_of_black_first(user_id, game_info) ==
    LET is_white == game_info.white # NoId /\ game_info.white = user_id
        is_black == game_info.black # NoId /\ game_info.black = user_id
    IN  IF is_black THEN "Black"
        ELSE IF is_white THEN "White"
        ELSE "None"

color_of(user_id, game_info) ==
    LET is_white == game_info.white # NoId /\ game_info.white = user_id
        is_black == game_info.black # NoId /\ game_info.black = user_id
    IN  IF is_white THEN "White"
        ELSE IF is_black THEN "Black"
        ELSE "None"

\* process_bot_event with the ChallengeCanceled arm calling on_challenge
BotCallbackCanceledAsChallenge(event) ==
    CASE event.type = "GameStart" -> "on_game_start"
      [] event.type = "GameFinish" -> "on_game_finish"
      [] event.type \in {"Challenge", "ChallengeCanceled"} -> "on_challenge"
      [] event.type = "ChallengeDeclined" -> "on_challenge_declined"

\* the match of process_bot_event: the callback an event is handed to
BotCallback(event) ==
    CASE event.type = "GameStart" -> "on_game_start"
      [] event.type = "GameFinish" -> "on_game_finish"
      [] event.type = "Challenge" -> "on_challenge"
      [] event.type = "ChallengeCanceled" -> "on_challenge_cancelled"
      [] event.type = "ChallengeDeclined" -> "on_challenge_declined"

\* process_game_event with the ChatLine arm calling on_game_state
GameCallbackChatAsState(event) ==
    CASE event.type = "GameFull" -> "panic"
      [] event.type \in {"GameState", "ChatLine"} -> "on_game_state"
      [] event.type = "OpponentGone" -> "on_opponent_gone"

\* process_game_event with the GameFull arm handing the embedded state to
\* on_game_state instead of panicking
GameCallbackFullAsState(event) ==
    CASE event.type \in {"GameFull", "GameState"} -> "on_game_state"
      [] event.type = "ChatLine" -> "on_chat_line"
      [] event.type = "OpponentGone" -> "on_opponent_gone"

\* the match of process_game_event: GameFull has no callback, it panics
GameCallback(event) ==
    CASE event.type = "GameFull" -> "panic"
      [] event.type = "GameState" -> "on_game_state"
      [] event.type = "ChatLine" -> "on_chat_line"
      [] event.type = "OpponentGone" -> "on_opponent_gone"

\* process_bot_event opening a per-game stream for GameFinish as well
OpensGameStreamOnFinishToo(event) ==
    event.type \in {"GameStart", "GameFinish"} /\ event.id # NoId

\* the GameStart arm of process_bot_event: a per-game stream is opened for a
\* GameStart whose id is Some
OpensGameStream(event) == event.type = "GameStart" /\ event.id # NoId

\* a stream handing out its records last to first
NextRecordFromEnd(stream, pos) == stream[Len(stream) - pos]

\* a stream that yields its first record again and again
NextRecordAgain(stream, pos) == stream[1]

\* the item event_stream yields after pos items: the records come in wire order
NextRecord(stream, pos) == stream[pos + 1]

\* record.unwrap() followed by process_game_event: what a per-game task does
\* with its record
GameUnitArm(record) ==
    IF record = GameDecodeErr THEN "panic" ELSE GameCallback(record)

\* for_each_concurrent(Some(1), ..), or a plain for_each awaiting each task
WithinLimitOfOne(pending) == pending = 0

\* for_each_concurrent(None, ..): the stream is polled whatever the number of
\* join handles still pending
WithinLimit(pending) == TRUE

----------------------------------------------------------------------------
(* The reply to one request, and how BotClient classifies it               *)
(* (src/src/client.rs, src/src/error.rs)                                   *)

\* the longest primary stream of the start-up model
MaxRunEvents == 1

\* Option::None of a response body text
NoBody == "none"
\* a body text that is not the JSON of the expected type
Garbage == "garbage"
\* body texts: garbage, or the JSON of a value (a text names the value it
\* is the JSON of)
BodyTexts == {Garbage} \cup BotIds
\* StatusCode values a server answers with
Statuses == {200, 299, 300, 404}

\* send() failed: no response at all
TransportFailure == [kind |-> "transport", status |-> 0, readable |-> FALSE, text |-> Garbage]
\* ReqwestResult<Response>: what comes back from send()
Replies ==
    {TransportFailure}
        \cup [kind : {"response"}, status : Statuses, readable : BOOLEAN,
              text : BodyTexts]

\* StatusCode::is_success, inverted so that every status counts as a success
is_success_always(status) == TRUE
\* StatusCode::is_success
is_success(status) == status \in 200..299

\* response.text().await.ok()
text_ok(reply) == IF reply.readable THEN reply.text ELSE NoBody

\* LibotResult: Ok(value) or Err(LibotRequestError); err is the variant of
\* the error, status and body are the fields of ApiError
OkResult(value) == [ok |-> TRUE, value |-> value, err |-> "-", status |-> 0, body |-> NoBody]
ErrResult(err, status, body) ==
    [ok |-> FALSE, value |-> NoId, err |-> err, status |-> status, body |-> body]

\* handle_error: the response itself is the value of an Ok
handle_error(reply) ==
    IF reply.kind = "transport"
    THEN ErrResult("ReqwestError", 0, NoBody)
    ELSE IF ~is_success(reply.status)
         THEN ErrResult("ApiError", reply.status, text_ok(reply))
         ELSE OkResult(reply)

\* serde's decoding of a body text into the expected type
Decodes(text) == text # Garbage

\* Response::json, taking every body for the JSON of a value
json_lenient(reply) == OkResult(reply.text)
\* Response::json: reading the body or decoding it may fail, both with a
\* reqwest error
json(reply) ==
    IF reply.readable /\ Decodes(reply.text)
    THEN OkResult(reply.text)
    ELSE ErrResult("ReqwestError", 0, NoBody)

\* Ok(self.send_request(..).await?.json().await?): a call that returns data
DataCall(reply) ==
    LET response == handle_error(reply)
    IN  IF response.ok THEN json(response.value) ELSE response

\* self.send_request(..).await?; Ok(()): a call that returns nothing
UnitCall(reply) ==
    LET response == handle_error(reply)
    IN  IF response.ok THEN OkResult("()") ELSE response

----------------------------------------------------------------------------
(* State *)

\* no pure function is being called
NoProbe == [fn |-> "-", done |-> FALSE]

NoGame ==
    [phase |-> "none", opened |-> "-", first |-> EndOfStream, ctx |-> NoContext,
     built |-> 0, gunits |-> <<>>, log |-> <<>>]

Streams == UNION {[1..n -> BotRecords] : n \in 0..MaxEvents}

Init ==
    /\ botId \in BotIds
    /\ evStream \in Streams
    /\ evPos = 0
    /\ evLoop = "running"
    /\ units = <<>>
    /\ games = [i \in 1..MaxEvents |-> NoGame]
    /\ botEvents = <<>>
    /\ requests = <<>>
    /\ probe = NoProbe

\* the pending join handles, taking every handle for joined
PendingNone(us) == 0
\* the join handles for_each_concurrent still holds
Pending(us) == Cardinality({k \in 1..Len(us) : ~us[k].joined})

GameRecordsRead ==
    LET n[i \in 0..MaxEvents] ==
            IF i = 0 THEN 0
            ELSE n[i - 1] + Len(games[i].gunits)
                          + (IF games[i].first = EndOfStream THEN 0 ELSE 1)
    IN  n[MaxEvents]

----------------------------------------------------------------------------
(* run_with_event_stream: the top-level loop *)

\* event_stream.map(|record| task::spawn(..)): the next record is taken off
\* the stream and its task is spawned (not yet run)
SpawnBotUnit ==
    /\ evLoop = "running"
    /\ evPos < Len(evStream)
    /\ WithinLimit(Pending(units))
    /\ evPos' = evPos + 1
    /\ units' = Append(units,
            [rec |-> NextRecord(evStream, evPos), pc |-> "spawned", joined |-> FALSE,
             why |-> "-"])
    /\ UNCHANGED <<probe, botId, evStream, evLoop, games, botEvents, requests>>

\* join_handle.await.unwrap() on a task that finished
JoinBotUnit(i) ==
    /\ evLoop = "running"
    /\ i \in 1..Len(units)
    /\ units[i].pc = "done"
    /\ ~units[i].joined
    /\ units' = [units EXCEPT ![i].joined = TRUE]
    /\ UNCHANGED <<probe, botId, evStream, evPos, evLoop, games, botEvents, requests>>

\* join_handle.await.unwrap() on a task that panicked: the loop panics
JoinBotUnitPanics(i) ==
    /\ evLoop = "running"
    /\ i \in 1..Len(units)
    /\ units[i].pc = "panicked"
    /\ ~units[i].joined
    /\ units' = [units EXCEPT ![i].joined = TRUE]
    /\ evLoop' = "panicked"
    /\ UNCHANGED <<probe, botId, evStream, evPos, games, botEvents, requests>>

\* the stream has ended and no join handle is left: for_each_concurrent is
\* ready and run_with_event_stream returns
ReturnBotLoop ==
    /\ evLoop = "running"
    /\ evPos = Len(evStream)
    /\ Pending(units) = 0
    /\ evLoop' = "done"
    /\ UNCHANGED <<probe, botId, evStream, evPos, units, games, botEvents, requests>>

----------------------------------------------------------------------------
(* process_bot_event: one spawned task of the top-level loop *)

\* record.unwrap() on a record that failed to decode
UnwrapBotRecordPanics(i) ==
    /\ i \in 1..Len(units)
    /\ units[i].pc = "spawned"
    /\ units[i].rec = BotDecodeErr
    /\ units' = [units EXCEPT ![i].pc = "panicked", ![i].why = "unwrap"]
    /\ UNCHANGED <<probe, botId, evStream, evPos, evLoop, games, botEvents, requests>>

\* record.unwrap() succeeds and the matching callback is entered
EnterBotCallback(i) ==
    /\ i \in 1..Len(units)
    /\ units[i].pc = "spawned"
    /\ units[i].rec # BotDecodeErr
    /\ botEvents' = Append(botEvents,
            [unit |-> i, cb |-> BotCallback(units[i].rec), ev |-> units[i].rec,
             ctx |-> BotContext(botId)])
    /\ units' = [units EXCEPT ![i].pc = "in_callback"]
    /\ UNCHANGED <<probe, botId, evStream, evPos, evLoop, games, requests>>

\* the callback returns; only a GameStart with an id goes on
ReturnBotCallback(i) ==
    /\ i \in 1..Len(units)
    /\ units[i].pc = "in_callback"
    /\ units' = [units EXCEPT ![i].pc =
            IF OpensGameStream(units[i].rec)
            THEN "returned" ELSE "done"]
    /\ UNCHANGED <<probe, botId, evStream, evPos, evLoop, games, botEvents, requests>>

\* the callback panics (the Bot is the implementer's code; nothing catches it)
BotCallbackPanics(i) ==
    /\ i \in 1..Len(units)
    /\ units[i].pc = "in_callback"
    /\ units' = [units EXCEPT ![i].pc = "panicked", ![i].why = "handler"]
    /\ UNCHANGED <<probe, botId, evStream, evPos, evLoop, games, botEvents, requests>>

\* the request unwrapped instead of matched with if let: an Err panics the task
OpenGameStreamUnwrapped(i) ==
    /\ i \in 1..Len(units)
    /\ units[i].pc = "returned"
    /\ requests' = Append(requests,
            [unit |-> i, method |-> "GET", path |-> game_event_path(units[i].rec.id)])
    /\ \E reply \in Replies :
          LET response == handle_error(reply)
          IN  IF response.ok
              THEN /\ units' = [units EXCEPT ![i].pc = "game"]
                   /\ games' = [games EXCEPT ![i].phase = "AwaitFull",
                                             ![i].opened = "Ok"]
              ELSE /\ units' = [units EXCEPT ![i].pc = "panicked", ![i].why = "unwrap"]
                   /\ games' = [games EXCEPT ![i].opened = response.err]
    /\ UNCHANGED <<probe, botId, evStream, evPos, evLoop, botEvents>>

\* client.send_request(Method::GET, &event_path): Ok(response) enters
\* run_with_game_event_stream, Err(_) is dropped by the if let
OpenGameStream(i) ==
    /\ i \in 1..Len(units)
    /\ units[i].pc = "returned"
    /\ requests' = Append(requests,
            [unit |-> i, method |-> "GET", path |-> game_event_path(units[i].rec.id)])
    /\ \E reply \in Replies :
          LET response == handle_error(reply)
          IN  IF response.ok
              THEN /\ units' = [units EXCEPT ![i].pc = "game"]
                   /\ games' = [games EXCEPT ![i].phase = "AwaitFull",
                                             ![i].opened = "Ok"]
              ELSE /\ units' = [units EXCEPT ![i].pc = "done"]
                   /\ games' = [games EXCEPT ![i].opened = response.err]
    /\ UNCHANGED <<probe, botId, evStream, evPos, evLoop, botEvents>>

----------------------------------------------------------------------------
(* run_with_game_event_stream: the per-game loop nested in unit i *)

\* GameContext { bot_color, bot_id, info } built from the GameFull record
NewGameContext(bot_id, info) ==
    [bot_id |-> bot_id, bot_color |-> color_of(bot_id, info), info |-> info]

\* a context derived again from the latest GameFull record of the stream
SharedContextRederived(g) ==
    LET fulls == {k \in 1..Len(g.gunits) : g.gunits[k].rec.type = "GameFull"}
    IN  IF fulls = {} THEN g.ctx
        ELSE NewGameContext(g.ctx.bot_id,
                g.gunits[CHOOSE k \in fulls : \A m \in fulls : m <= k].rec.info)

\* Arc::clone(&game_context): the context a later task is given
SharedContext(g) == g.ctx

\* the match with Some(_) returning like None instead of panicking
FirstRecordArmLenient(r) ==
    IF r # EndOfStream /\ r.type = "GameFull" THEN "full" ELSE "return"

\* the match with None panicking like Some(_)
FirstRecordArmStrict(r) ==
    IF r # EndOfStream /\ r.type = "GameFull" THEN "full" ELSE "panic"

\* how the first item of the stream is treated (the match on
\* event_stream.next().await)
FirstRecordArm(r) ==
    IF r = EndOfStream THEN "return"
    ELSE IF r.type = "GameFull" THEN "full"
    ELSE "panic"

\* event_stream.next().await and its match: GameFull builds the context and
\* enters on_game_state inline, None returns, anything else panics
ReadFirstGameRecord(i) ==
    /\ i \in 1..Len(units)
    /\ units[i].pc = "game"
    /\ games[i].phase = "AwaitFull"
    /\ \E r \in GameRecords \cup {EndOfStream} :
          /\ r # EndOfStream => GameRecordsRead < MaxGameRecords
          /\ CASE FirstRecordArm(r) = "return" ->
                    /\ games' = [games EXCEPT ![i].phase = "Done", ![i].first = r]
                    /\ units' = [units EXCEPT ![i].pc = "done"]
               [] FirstRecordArm(r) = "full" ->
                    LET ctx == NewGameContext(botId, r.info) IN
                    /\ games' = [games EXCEPT
                            ![i].phase = "FirstCallback",
                            ![i].first = r,
                            ![i].ctx = ctx,
                            ![i].built = @ + 1,
                            ![i].log = Append(@,
                                [rec |-> 0, cb |-> "on_game_state", ctx |-> ctx,
                                 ev |-> GameStateEv(r.state)])]
                    /\ UNCHANGED units
               [] FirstRecordArm(r) = "panic" ->
                    /\ games' = [games EXCEPT ![i].phase = "Panicked", ![i].first = r]
                    /\ units' = [units EXCEPT ![i].pc = "panicked", ![i].why = "protocol"]
    /\ UNCHANGED <<probe, botId, evStream, evPos, evLoop, botEvents, requests>>

\* the inline on_game_state returns; the context is moved into an Arc and the
\* rest of the stream is mapped
ReturnFirstCallback(i) ==
    /\ i \in 1..Len(units)
    /\ games[i].phase = "FirstCallback"
    /\ games' = [games EXCEPT ![i].phase = "Streaming"]
    /\ UNCHANGED <<probe, botId, evStream, evPos, evLoop, units, botEvents, requests>>

\* the inline on_game_state panics, and with it the unit
FirstCallbackPanics(i) ==
    /\ i \in 1..Len(units)
    /\ games[i].phase = "FirstCallback"
    /\ games' = [games EXCEPT ![i].phase = "Panicked"]
    /\ units' = [units EXCEPT ![i].pc = "panicked", ![i].why = "handler"]
    /\ UNCHANGED <<probe, botId, evStream, evPos, evLoop, botEvents, requests>>

\* a per-game loop that reads the next record only when every task it
\* spawned has been joined (a plain for_each awaiting each join handle)
SpawnGameUnitOneAtATime(i) ==
    /\ i \in 1..Len(units)
    /\ games[i].phase = "Streaming"
    /\ GameRecordsRead < MaxGameRecords
    /\ Pending(games[i].gunits) = 0
    /\ \E r \in GameRecords :
          games' = [games EXCEPT ![i].gunits = Append(@,
                [rec |-> r, pc |-> "spawned", joined |-> FALSE, why |-> "-",
                 ctx |-> SharedContext(games[i])])]
    /\ UNCHANGED <<probe, botId, evStream, evPos, evLoop, units, botEvents, requests>>

\* a per-game loop that starts reading the later records while the handler
\* of the initial state is still running (on_game_state spawned, not awaited)
SpawnGameUnitEarly(i) ==
    /\ i \in 1..Len(units)
    /\ games[i].phase \in {"FirstCallback", "Streaming"}
    /\ GameRecordsRead < MaxGameRecords
    /\ WithinLimit(Pending(games[i].gunits))
    /\ \E r \in GameRecords :
          games' = [games EXCEPT ![i].gunits = Append(@,
                [rec |-> r, pc |-> "spawned", joined |-> FALSE, why |-> "-",
                 ctx |-> SharedContext(games[i])])]
    /\ UNCHANGED <<probe, botId, evStream, evPos, evLoop, units, botEvents, requests>>

\* a per-game loop that stops reading once it has read an OpponentGone record
SpawnGameUnitUntilGone(i) ==
    /\ i \in 1..Len(units)
    /\ games[i].phase = "Streaming"
    /\ GameRecordsRead < MaxGameRecords
    /\ \A j \in 1..Len(games[i].gunits) : games[i].gunits[j].rec.type # "OpponentGone"
    /\ \E r \in GameRecords :
          games' = [games EXCEPT ![i].gunits = Append(@,
                [rec |-> r, pc |-> "spawned", joined |-> FALSE, why |-> "-",
                 ctx |-> SharedContext(games[i])])]
    /\ UNCHANGED <<probe, botId, evStream, evPos, evLoop, units, botEvents, requests>>

\* event_stream.map(|record| task::spawn(..)) on a later record
SpawnGameUnit(i) ==
    /\ i \in 1..Len(units)
    /\ games[i].phase = "Streaming"
    /\ GameRecordsRead < MaxGameRecords
    /\ WithinLimit(Pending(games[i].gunits))
    /\ \E r \in GameRecords :
          games' = [games EXCEPT ![i].gunits = Append(@,
                [rec |-> r, pc |-> "spawned", joined |-> FALSE, why |-> "-",
                 ctx |-> SharedContext(games[i])])]
    /\ UNCHANGED <<probe, botId, evStream, evPos, evLoop, units, botEvents, requests>>

\* join_handle.await.unwrap() on a per-game task that finished
JoinGameUnit(i, j) ==
    /\ i \in 1..Len(units)
    /\ games[i].phase = "Streaming"
    /\ j \in 1..Len(games[i].gunits)
    /\ games[i].gunits[j].pc = "done"
    /\ ~games[i].gunits[j].joined
    /\ games' = [games EXCEPT ![i].gunits[j].joined = TRUE]
    /\ UNCHANGED <<probe, botId, evStream, evPos, evLoop, units, botEvents, requests>>

\* a join that drops the JoinError of a per-game task that panicked
\* (join_handle.await without the unwrap)
JoinGameUnitContained(i, j) ==
    /\ i \in 1..Len(units)
    /\ games[i].phase = "Streaming"
    /\ j \in 1..Len(games[i].gunits)
    /\ games[i].gunits[j].pc = "panicked"
    /\ ~games[i].gunits[j].joined
    /\ games' = [games EXCEPT ![i].gunits[j].joined = TRUE]
    /\ UNCHANGED <<probe, botId, evStream, evPos, evLoop, units, botEvents, requests>>

\* join_handle.await.unwrap() on a per-game task that panicked: the per-game
\* loop panics, and with it the unit it runs in
JoinGameUnitPanics(i, j) ==
    /\ i \in 1..Len(units)
    /\ games[i].phase = "Streaming"
    /\ j \in 1..Len(games[i].gunits)
    /\ games[i].gunits[j].pc = "panicked"
    /\ ~games[i].gunits[j].joined
    /\ games' = [games EXCEPT ![i].gunits[j].joined = TRUE, ![i].phase = "Panicked"]
    /\ units' = [units EXCEPT ![i].pc = "panicked", ![i].why = "join"]
    /\ UNCHANGED <<probe, botId, evStream, evPos, evLoop, botEvents, requests>>

\* the per-game stream yields None and no join handle is left:
\* run_with_game_event_stream returns, and process_bot_event with it
ReturnGameLoop(i) ==
    /\ i \in 1..Len(units)
    /\ games[i].phase = "Streaming"
    /\ Pending(games[i].gunits) = 0
    /\ games' = [games EXCEPT ![i].phase = "Done"]
    /\ units' = [units EXCEPT ![i].pc = "done"]
    /\ UNCHANGED <<probe, botId, evStream, evPos, evLoop, botEvents, requests>>

----------------------------------------------------------------------------
(* process_game_event: one spawned task of a per-game loop *)

\* record.unwrap() on a failed record, or the GameFull arm: the task panics
GameUnitPanics(i, j) ==
    /\ i \in 1..Len(units)
    /\ j \in 1..Len(games[i].gunits)
    /\ games[i].gunits[j].pc = "spawned"
    /\ LET r == games[i].gunits[j].rec IN
          /\ GameUnitArm(r) = "panic"
          /\ games' = [games EXCEPT
                ![i].gunits[j].pc = "panicked",
                ![i].gunits[j].why = IF r = GameDecodeErr THEN "unwrap" ELSE "protocol"]
    /\ UNCHANGED <<probe, botId, evStream, evPos, evLoop, units, botEvents, requests>>

\* record.unwrap() succeeds and the matching callback is entered
EnterGameCallback(i, j) ==
    /\ i \in 1..Len(units)
    /\ j \in 1..Len(games[i].gunits)
    /\ games[i].gunits[j].pc = "spawned"
    /\ LET u == games[i].gunits[j] IN
          /\ GameUnitArm(u.rec) # "panic"
          /\ games' = [games EXCEPT
                ![i].gunits[j].pc = "in_callback",
                ![i].log = Append(@,
                    [rec |-> j, cb |-> GameUnitArm(u.rec), ctx |-> u.ctx, ev |-> u.rec])]
    /\ UNCHANGED <<probe, botId, evStream, evPos, evLoop, units, botEvents, requests>>

ReturnGameCallback(i, j) ==
    /\ i \in 1..Len(units)
    /\ j \in 1..Len(games[i].gunits)
    /\ games[i].gunits[j].pc = "in_callback"
    /\ games' = [games EXCEPT ![i].gunits[j].pc = "done"]
    /\ UNCHANGED <<probe, botId, evStream, evPos, evLoop, units, botEvents, requests>>

GameCallbackPanics(i, j) ==
    /\ i \in 1..Len(units)
    /\ j \in 1..Len(games[i].gunits)
    /\ games[i].gunits[j].pc = "in_callback"
    /\ games' = [games EXCEPT ![i].gunits[j].pc = "panicked",
                              ![i].gunits[j].why = "handler"]
    /\ UNCHANGED <<probe, botId, evStream, evPos, evLoop, units, botEvents, requests>>

----------------------------------------------------------------------------
(* The system *)

BotLoopStep ==
    \/ SpawnBotUnit
    \/ ReturnBotLoop
    \/ \E i \in 1..MaxEvents : JoinBotUnit(i) \/ JoinBotUnitPanics(i)

BotUnitStep ==
    \E i \in 1..MaxEvents :
        \/ UnwrapBotRecordPanics(i)
        \/ EnterBotCallback(i)
        \/ ReturnBotCallback(i)
        \/ BotCallbackPanics(i)
        \/ OpenGameStream(i)

GameLoopStep ==
    \E i \in 1..MaxEvents :
        \/ ReadFirstGameRecord(i)
        \/ ReturnFirstCallback(i)
        \/ FirstCallbackPanics(i)
        \/ SpawnGameUnit(i)
        \/ ReturnGameLoop(i)
        \/ \E j \in 1..MaxGameRecords : JoinGameUnit(i, j) \/ JoinGameUnitPanics(i, j)

GameUnitStep ==
    \E i \in 1..MaxEvents, j \in 1..MaxGameRecords :
        \/ GameUnitPanics(i, j)
        \/ EnterGameCallback(i, j)
        \/ ReturnGameCallback(i, j)
        \/ GameCallbackPanics(i, j)

Next == BotLoopStep \/ BotUnitStep \/ GameLoopStep \/ GameUnitStep

Spec == Init /\ [][Next]_vars

----------------------------------------------------------------------------
(* The derivation of a GameContext, on its own: the bot id and the info of  *)
(* a GameFull record are drawn, and the context is built from them as in    *)
(* run_with_game_event_stream                                               *)

Idle ==
    /\ botId = "u1"
    /\ evStream = <<>>
    /\ evPos = 0
    /\ evLoop = "done"
    /\ units = <<>>
    /\ games = [i \in 1..MaxEvents |-> NoGame]
    /\ botEvents = <<>>
    /\ requests = <<>>

ContextInit ==
    /\ Idle
    /\ probe \in [fn : {"GameContext"}, done : {FALSE}, bot_id : Users,
                  info : GameInfo, ctx : {NoContext}]

BuildContext ==
    /\ probe.fn = "GameContext"
    /\ ~probe.done
    /\ probe' = [probe EXCEPT !.done = TRUE,
                              !.ctx = NewGameContext(probe.bot_id, probe.info)]
    /\ UNCHANGED dispatchVars

ContextSpec == ContextInit /\ [][BuildContext]_vars

----------------------------------------------------------------------------
(* run: the profile is fetched, the primary stream is opened and handed to  *)
(* run_with_event_stream                                                    *)

RunStreams == UNION {[1..n -> BotRecords] : n \in 0..MaxRunEvents}

\* no result yet
NoResult == ErrResult("-", 0, NoBody)

\* the state of one call of run: where it is, the replies it got to its own
\* two requests, and what it returned
RunProbe(pc, replies, result) ==
    [fn |-> "run", done |-> pc \in {"ok", "err", "unwrap_panicked", "loop_panicked"},
     pc |-> pc, replies |-> replies, result |-> result]

RunInit ==
    /\ botId = NoId
    /\ evStream \in RunStreams
    /\ evPos = 0
    /\ evLoop = "not_started"
    /\ units = <<>>
    /\ games = [i \in 1..MaxEvents |-> NoGame]
    /\ botEvents = <<>>
    /\ requests = <<>>
    /\ probe = RunProbe("profile", <<>>, NoResult)

\* let bot_id = client.get_my_profile().await.unwrap().id
GetMyProfile ==
    /\ probe.fn = "run"
    /\ probe.pc = "profile"
    /\ requests' = Append(requests, [unit |-> 0, method |-> "GET", path |-> "/account"])
    /\ \E reply \in Replies :
          LET profile == DataCall(reply)
          IN  IF profile.ok
              THEN /\ botId' = profile.value
                   /\ probe' = RunProbe("open", <<reply>>, NoResult)
              ELSE /\ probe' = RunProbe("unwrap_panicked", <<reply>>, profile)
                   /\ UNCHANGED botId
    /\ UNCHANGED <<evStream, evPos, evLoop, units, games, botEvents>>

\* client.send_request(Method::GET, EVENT_PATH).await?, and the call of
\* run_with_event_stream on the stream of the response
OpenEventStream ==
    /\ probe.fn = "run"
    /\ probe.pc = "open"
    /\ requests' = Append(requests, [unit |-> 0, method |-> "GET", path |-> EVENT_PATH])
    /\ \E reply \in Replies :
          LET response == handle_error(reply)
          IN  IF response.ok
              THEN /\ evLoop' = "running"
                   /\ probe' = RunProbe("loop", Append(probe.replies, reply), NoResult)
              ELSE /\ probe' = RunProbe("err", Append(probe.replies, reply), response)
                   /\ UNCHANGED evLoop
    /\ UNCHANGED <<botId, evStream, evPos, units, games, botEvents>>

\* Ok(run_with_event_stream(..).await)
ReturnRun ==
    /\ probe.fn = "run"
    /\ probe.pc = "loop"
    /\ evLoop = "done"
    /\ probe' = RunProbe("ok", probe.replies, OkResult("()"))
    /\ UNCHANGED dispatchVars

\* run_with_event_stream panicked inside run
RunPanics ==
    /\ probe.fn = "run"
    /\ probe.pc = "loop"
    /\ evLoop = "panicked"
    /\ probe' = RunProbe("loop_panicked", probe.replies, NoResult)
    /\ UNCHANGED dispatchVars

RunStep == GetMyProfile \/ OpenEventStream \/ ReturnRun \/ RunPanics

RunNext == RunStep \/ Next

RunSpec == RunInit /\ [][RunNext]_vars

\* the runtime runs every task that can run, and a stream that is polled
\* yields its next item or its end: no step that is possible is put off
\* forever
FairRunSpec == RunSpec /\ WF_vars(RunNext)

----------------------------------------------------------------------------
(* Strings of URLs.  A string is the sequence of its pieces: a piece is the *)
(* character '/' or a run of characters without a '/' (one character in the *)
(* model of join_url on its own)                                            *)

\* longest base_url and longest path handed to join_url on its own
MaxLen == 3

Slash == "/"
\* the characters of the strings join_url is tried on
Chars == {Slash, "a"}
Texts == UNION {[1..n -> Chars] : n \in 0..MaxLen}

\* str::ends_with(char) and str::starts_with(char)
ends_with(s, c) == Len(s) > 0 /\ s[Len(s)] = c
starts_with(s, c) == Len(s) > 0 /\ s[1] = c
\* String::pop, on a string that is not empty
pop(s) == SubSeq(s, 1, Len(s) - 1)

\* join_url without the pop of the trailing slash
join_url_keeping_slash(base_url, path) ==
    (IF ~starts_with(path, Slash) THEN Append(base_url, Slash) ELSE base_url) \o path

\* join_url
join_url(base_url, path) ==
    LET owned == base_url
        popped == IF ends_with(owned, Slash) THEN pop(owned) ELSE owned
        pushed == IF ~starts_with(path, Slash) THEN Append(popped, Slash) ELSE popped
    IN  pushed \o path

UrlInit ==
    /\ Idle
    /\ probe \in [fn : {"join_url"}, done : {FALSE}, base_url : Texts, path : Texts,
                  url : {<<>>}]

JoinUrl ==
    /\ probe.fn = "join_url"
    /\ ~probe.done
    /\ probe' = [probe EXCEPT !.done = TRUE,
                              !.url = join_url(probe.base_url, probe.path)]
    /\ UNCHANGED dispatchVars

UrlSpec == UrlInit /\ [][JoinUrl]_vars

----------------------------------------------------------------------------
(* The status of a game, decoded from an object {id?, name?}               *)
(* (src/src/model/game/mod.rs).  An Option is a sequence: <<>> is None and  *)
(* <<v>> is Some(v)                                                         *)

None == <<>>
Some(v) == <<v>>

\* enum GameStatus
GameStatus ==
    {"Created", "Started", "Aborted", "Mate", "Resign", "Stalemate", "Timeout", "Draw",
     "OutOfTime", "Cheat", "NoStart", "UnknownFinish", "VariantEnd"}

\* the ids and names a status object of the model may carry: those of the
\* tables and some that are in neither
StatusIds == {10, 20, 25, 30, 31, 32, 33, 34, 35, 36, 37, 38, 60} \cup {0, 5, 11, 39, 61}
StatusNames ==
    {"created", "started", "aborted", "mate", "resign", "stalemate", "timeout", "draw",
     "outoftime", "cheat", "noStart", "unknownFinish", "variantEnd"}
        \cup {"help", "Created", "outOfTime", ""}

\* struct GameStatusObject
GameStatusObject ==
    [id : {None} \cup {Some(n) : n \in StatusIds},
     name : {None} \cup {Some(n) : n \in StatusNames}]

\* Result<_, GameStatusError>
StatusOk(value) == [ok |-> TRUE, value |-> value, err |-> "-"]
StatusErr(err) == [ok |-> FALSE, value |-> None, err |-> err]

\* game_status_from_id
game_status_from_id(id) ==
    CASE id = 10 -> StatusOk("Created")
      [] id = 20 -> StatusOk("Started")
      [] id = 25 -> StatusOk("Aborted")
      [] id = 30 -> StatusOk("Mate")
      [] id = 31 -> StatusOk("Resign")
      [] id = 32 -> StatusOk("Stalemate")
      [] id = 33 -> StatusOk("Timeout")
      [] id = 34 -> StatusOk("Draw")
      [] id = 35 -> StatusOk("OutOfTime")
      [] id = 36 -> StatusOk("Cheat")
      [] id = 37 -> StatusOk("NoStart")
      [] id = 38 -> StatusOk("UnknownFinish")
      [] id = 60 -> StatusOk("VariantEnd")
      [] OTHER -> StatusErr("UnknownId")

\* game_status_from_name
game_status_from_name(name) ==
    CASE name = "created" -> StatusOk("Created")
      [] name = "started" -> StatusOk("Started")
      [] name = "aborted" -> StatusOk("Aborted")
      [] name = "mate" -> StatusOk("Mate")
      [] name = "resign" -> StatusOk("Resign")
      [] name = "stalemate" -> StatusOk("Stalemate")
      [] name = "timeout" -> StatusOk("Timeout")
      [] name = "draw" -> StatusOk("Draw")
      [] name = "outoftime" -> StatusOk("OutOfTime")
      [] name = "cheat" -> StatusOk("Cheat")
      [] name = "noStart" -> StatusOk("NoStart")
      [] name = "unknownFinish" -> StatusOk("UnknownFinish")
      [] name = "variantEnd" -> StatusOk("VariantEnd")
      [] OTHER -> StatusErr("UnknownName")

\* transpose of a Some(result): an Ok(v) becomes Ok(Some(v)), an Err stays
Transposed(result) == IF result.ok THEN StatusOk(Some(result.value)) ELSE result

\* game_status_object.id.map(game_status_from_id).transpose()
FromId(id) == IF id = None THEN StatusOk(None) ELSE Transposed(game_status_from_id(id[1]))
\* game_status_object.name.as_ref().map(game_status_from_name).transpose()
FromName(name) ==
    IF name = None THEN StatusOk(None) ELSE Transposed(game_status_from_name(name[1]))

\* try_from without the comparison of the two statuses
try_from_unchecked(game_status_object) ==
    LET from_id == FromId(game_status_object.id)
        from_name == FromName(game_status_object.name)
    IN  IF ~from_id.ok THEN from_id
        ELSE IF ~from_name.ok THEN from_name
        ELSE StatusOk(IF from_id.value # None THEN from_id.value ELSE from_name.value)

\* impl TryFrom<GameStatusObject> for Option<GameStatus>
try_from(game_status_object) ==
    LET from_id == FromId(game_status_object.id)
        from_name == FromName(game_status_object.name)
    IN  IF ~from_id.ok THEN from_id
        ELSE IF ~from_name.ok THEN from_name
        ELSE IF /\ from_id.value # None
                /\ from_name.value # None
                /\ from_id.value # from_name.value
             THEN StatusErr("IdNameMismatch")
             ELSE StatusOk(IF from_id.value # None THEN from_id.value ELSE from_name.value)

\* deserialize_game_status_from_object, on a null or an object
deserialize_game_status_from_object(object) ==
    IF object = None THEN StatusOk(None) ELSE try_from(object[1])

StatusInit ==
    /\ Idle
    /\ probe \in [fn : {"GameStatus"}, done : {FALSE},
                  json : {None} \cup {Some(o) : o \in GameStatusObject},
                  result : {StatusErr("-")}]

DecodeStatus ==
    /\ probe.fn = "GameStatus"
    /\ ~probe.done
    /\ probe' = [probe EXCEPT !.done = TRUE,
                              !.result = deserialize_game_status_from_object(probe.json)]
    /\ UNCHANGED dispatchVars

StatusSpec == StatusInit /\ [][DecodeStatus]_vars

----------------------------------------------------------------------------
(* The variant of a game, decoded from an object that is tagged by its key  *)
(* field or is empty (src/src/model/game/mod.rs)                            *)

\* the values of the key field the model tries: the ten tags of the enum
\* and some strings that are no tag
VariantKeys ==
    {"standard", "chess960", "crazyhouse", "antichess", "atomic", "horde",
     "kingOfTheHill", "racingKings", "threeCheck", "fromPosition"}
        \cup {"bogus", "Standard", "kingofthehill", ""}
\* fields of the object other than key
ExtraFields == {"name", "short", "other"}

\* the JSON values handed to deserialize_optional_variant: null, or an
\* object with or without a key and with any of the other fields
JsonNull == [kind |-> "null", key |-> None, extra |-> {}]
VariantJson ==
    {JsonNull}
        \cup [kind : {"object"}, key : {None} \cup {Some(k) : k \in VariantKeys},
              extra : SUBSET ExtraFields]

\* Result<_, D::Error>
DecodeOk(value) == [ok |-> TRUE, value |-> value]
DecodeErr == [ok |-> FALSE, value |-> None]

\* enum Variant with #[serde(tag = "key", rename_all = "camelCase")]: the
\* variant is chosen by the key field, all other fields are ignored
DeserializeVariant(value) ==
    IF value.kind # "object" \/ value.key = None THEN DecodeErr
    ELSE CASE value.key[1] = "standard" -> DecodeOk("Standard")
           [] value.key[1] = "chess960" -> DecodeOk("Chess960")
           [] value.key[1] = "crazyhouse" -> DecodeOk("Crazyhouse")
           [] value.key[1] = "antichess" -> DecodeOk("Antichess")
           [] value.key[1] = "atomic" -> DecodeOk("Atomic")
           [] value.key[1] = "horde" -> DecodeOk("Horde")
           [] value.key[1] = "kingOfTheHill" -> DecodeOk("KingOfTheHill")
           [] value.key[1] = "racingKings" -> DecodeOk("RacingKings")
           [] value.key[1] = "threeCheck" -> DecodeOk("ThreeCheck")
           [] value.key[1] = "fromPosition" -> DecodeOk("FromPosition")
           [] OTHER -> DecodeErr

\* VariantOrEmpty::Empty { }: a struct variant without fields and without
\* deny_unknown_fields; every field of an object is unknown to it and is
\* skipped, so every object matches
DeserializeEmpty(value) ==
    IF value.kind = "object" THEN DecodeOk("Empty") ELSE DecodeErr

\* deserialize_optional_variant: #[serde(untagged)] tries the variants of
\* VariantOrEmpty in the order they are written and takes the first that
\* matches
deserialize_optional_variant(value) ==
    IF DeserializeVariant(value).ok
    THEN DecodeOk(Some(DeserializeVariant(value).value))
    ELSE IF DeserializeEmpty(value).ok
         THEN DecodeOk(None)
         ELSE DecodeErr

VariantInit ==
    /\ Idle
    /\ probe \in [fn : {"Variant"}, done : {FALSE}, json : VariantJson,
                  result : {DecodeErr}]

DecodeVariant ==
    /\ probe.fn = "Variant"
    /\ ~probe.done
    /\ probe' = [probe EXCEPT !.done = TRUE,
                              !.result = deserialize_optional_variant(probe.json)]
    /\ UNCHANGED dispatchVars

VariantSpec == VariantInit /\ [][DecodeVariant]_vars

----------------------------------------------------------------------------
(* BotClientBuilder and the calls of a BotClient (src/src/client.rs,        *)
(* src/src/model/request.rs)                                                *)

\* most with_token and with_base_url calls on one builder
MaxBuilderCalls == 3
\* most method calls on a client that was built in the model
MaxCallsAfterBuild == 1
\* most method calls on a client the model starts with
MaxCalls == 2

\* DEFAULT_BASE_URL: "https://lichess.org/api"
DEFAULT_BASE_URL == <<"https:", Slash, Slash, "lichess.org", Slash, "api">>
\* the arguments of with_base_url: "http://mock/" and "http://other/v2"
BaseUrlArgs ==
    {<<"http:", Slash, Slash, "mock", Slash>>,
     <<"http:", Slash, Slash, "other", Slash, "v2">>}

\* the arguments of with_token, as their bytes: "ab", a tab and a letter
\* of two bytes over 127, "\0", "a" and a DEL
TokenArgs == {<<97, 98>>, <<9, 195, 136>>, <<0>>, <<97, 127>>}

\* the bytes of "Bearer "
Bearer == <<66, 101, 97, 114, 101, 114, 32>>

\* HeaderValue: a byte is allowed when it is a tab, or at least 32 and not
\* 127
is_valid(b) == (b >= 32 /\ b # 127) \/ b = 9

\* format!("Bearer {}", token).parse(): the header value, or no value when
\* a byte is not allowed
ParseHeaderValue(token) ==
    LET value == Bearer \o token
    IN  IF \A k \in 1..Len(value) : is_valid(value[k]) THEN Some(value) ELSE None

\* BotClientBuilder::new
NewBuilder == [token |-> None, base_url |-> DEFAULT_BASE_URL]

\* the calls made on a builder
BuilderCalls ==
    [op : {"with_token"}, arg : TokenArgs] \cup [op : {"with_base_url"}, arg : BaseUrlArgs]

\* BotClientBuilderResult
NoClient == [authorization |-> <<>>, base_url |-> <<>>]
BuildOk(client) == [ok |-> TRUE, err |-> "-", client |-> client]
BuildErr(err) == [ok |-> FALSE, err |-> err, client |-> NoClient]

\* build when the token is not looked at, only its presence
build_unparsed(builder, client_built) ==
    IF builder.token # None
    THEN IF client_built
         THEN BuildOk([authorization |-> Bearer \o builder.token[1],
                       base_url |-> builder.base_url])
         ELSE BuildErr("ClientError")
    ELSE BuildErr("NoToken")

\* BotClientBuilder::build; client_built tells whether
\* ClientBuilder::new().default_headers(headers).build() gave a client
build(builder, client_built) ==
    IF builder.token # None
    THEN LET authorization_value == ParseHeaderValue(builder.token[1])
         IN  IF authorization_value = None THEN BuildErr("InvalidToken")
             ELSE IF ~client_built THEN BuildErr("ClientError")
             ELSE BuildOk([authorization |-> authorization_value[1],
                           base_url |-> builder.base_url])
    ELSE BuildErr("NoToken")

\* enum DeclineReason, a variant being the words of its name
DeclineReason ==
    {<<"Generic">>, <<"Later">>, <<"Too", "Fast">>, <<"Too", "Slow">>, <<"Time", "Control">>,
     <<"Rated">>, <<"Casual">>, <<"Standard">>, <<"Variant">>, <<"No", "Bot">>,
     <<"Only", "Bot">>}
\* enum ChatRoom
ChatRoom == {<<"Player">>, <<"Spectator">>}

\* a word with its first letter in lower case
Uncapitalized(word) ==
    CASE word = "Generic" -> "generic"
      [] word = "Later" -> "later"
      [] word = "Too" -> "too"
      [] word = "Time" -> "time"
      [] word = "Rated" -> "rated"
      [] word = "Casual" -> "casual"
      [] word = "Standard" -> "standard"
      [] word = "Variant" -> "variant"
      [] word = "No" -> "no"
      [] word = "Only" -> "only"
      [] word = "Player" -> "player"
      [] word = "Spectator" -> "spectator"

RECURSIVE Concat(_)
Concat(words) == IF words = <<>> THEN "" ELSE Head(words) \o Concat(Tail(words))

\* #[serde(rename_all = "camelCase")] on a unit variant: the name with its
\* first letter in lower case
CamelCase(variant) == Uncapitalized(Head(variant)) \o Concat(Tail(variant))

\* serde_json::to_string of a DeclineRequest that writes a missing reason
\* as null
SerializeDeclineRequestWithNull(reason) ==
    IF reason = None THEN "{\"reason\":null}"
    ELSE "{\"reason\":\"" \o CamelCase(reason[1]) \o "\"}"
\* serde_json::to_string of a DeclineRequest: skip_serializing_if leaves a
\* None out
SerializeDeclineRequest(reason) ==
    IF reason = None THEN "{}"
    ELSE "{\"reason\":\"" \o CamelCase(reason[1]) \o "\"}"

\* bool and i32 as they are written into a query or a path
BoolToString(b) == IF b THEN "true" ELSE "false"
SecondsToString(seconds) == ToString(seconds)

\* the arguments of the model's calls
ChallengeIds == {"c1"}
Moves == {"e2e4", "e7e8q"}
SecondsArgs == {15, 0 - 1}
ChatTexts == {"gg"}
Usernames == {"u1", "u3"}

NoArgs ==
    [id |-> "-", mov |-> "-", offer_draw |-> FALSE, seconds |-> 0, room |-> <<"Player">>,
     text |-> "-", reason |-> None]
CallOf(name, args) == [name |-> name] @@ args

\* the calls of the model: a method of BotClient with its arguments
Calls ==
    {CallOf(name, NoArgs) :
        name \in {"get_pending_challenges", "get_my_profile", "get_my_preferences"}}
    \cup {CallOf("accept_challenge", [NoArgs EXCEPT !.id = id]) : id \in ChallengeIds}
    \cup {CallOf("decline_challenge", [NoArgs EXCEPT !.id = id, !.reason = reason]) :
            id \in ChallengeIds, reason \in {None} \cup {Some(r) : r \in DeclineReason}}
    \cup {CallOf("make_move", [NoArgs EXCEPT !.id = id, !.mov = mov, !.offer_draw = d]) :
            id \in StreamGameIds, mov \in Moves, d \in BOOLEAN}
    \cup {CallOf(name, [NoArgs EXCEPT !.id = id]) :
            name \in {"abort_game", "resign_game", "offer_or_accept_draw", "decline_draw",
                      "get_game_chat"},
            id \in StreamGameIds}
    \cup {CallOf("add_time", [NoArgs EXCEPT !.id = id, !.seconds = seconds]) :
            id \in StreamGameIds, seconds \in SecondsArgs}
    \cup {CallOf("send_chat_message", [NoArgs EXCEPT !.id = id, !.room = room, !.text = text]) :
            id \in StreamGameIds, room \in ChatRoom, text \in ChatTexts}
    \cup {CallOf("get_profile", [NoArgs EXCEPT !.id = username]) : username \in Usernames}

\* the request a method builds before it is sent: what it hands to
\* send_request, send_request_with_body, _with_form or _with_query
NoQuery == <<>>
NoForm == <<>>
Built(method, path) ==
    [method |-> method, path |-> path, query |-> NoQuery, json |-> NoBody, form |-> NoForm]

\* every method, sending what abort_game sends
BuildRequestAbortOnly(call) ==
    Built("POST", <<Slash, "bot", Slash, "game", Slash, call.id, Slash, "abort">>)

\* impl BotClient: method, path, and query, JSON body or form of each method
BuildRequest(call) ==
    CASE call.name = "get_pending_challenges" -> Built("GET", <<Slash, "challenge">>)
      [] call.name = "accept_challenge" ->
            Built("POST", <<Slash, "challenge", Slash, call.id, Slash, "accept">>)
      [] call.name = "decline_challenge" ->
            [Built("POST", <<Slash, "challenge", Slash, call.id, Slash, "decline">>)
                EXCEPT !.json = SerializeDeclineRequest(call.reason)]
      [] call.name = "make_move" ->
            [Built("POST", <<Slash, "bot", Slash, "game", Slash, call.id, Slash, "move",
                             Slash, call.mov>>)
                EXCEPT !.query = <<<<"offeringDraw", BoolToString(call.offer_draw)>>>>]
      [] call.name = "abort_game" ->
            Built("POST", <<Slash, "bot", Slash, "game", Slash, call.id, Slash, "abort">>)
      [] call.name = "resign_game" ->
            Built("POST", <<Slash, "bot", Slash, "game", Slash, call.id, Slash, "resign">>)
      [] call.name = "offer_or_accept_draw" ->
            Built("POST", <<Slash, "bot", Slash, "game", Slash, call.id, Slash, "draw",
                            Slash, "yes">>)
      [] call.name = "decline_draw" ->
            Built("POST", <<Slash, "bot", Slash, "game", Slash, call.id, Slash, "draw",
                            Slash, "no">>)
      [] call.name = "add_time" ->
            Built("POST", <<Slash, "round", Slash, call.id, Slash, "add-time", Slash,
                            SecondsToString(call.seconds)>>)
      [] call.name = "get_game_chat" ->
            Built("GET", <<Slash, "bot", Slash, "game", Slash, call.id, Slash, "chat">>)
      [] call.name = "send_chat_message" ->
            [Built("POST", <<Slash, "bot", Slash, "game", Slash, call.id, Slash, "chat">>)
                EXCEPT !.form = <<<<"room", CamelCase(call.room)>>, <<"text", call.text>>>>]
      [] call.name = "get_profile" -> Built("GET", <<Slash, "user", Slash, call.id>>)
      [] call.name = "get_my_profile" -> Built("GET", <<Slash, "account">>)
      [] call.name = "get_my_preferences" ->
            Built("GET", <<Slash, "account", Slash, "preferences">>)

\* the methods that decode the body of the response
ReturnsData(call) ==
    call.name \in {"get_pending_challenges", "get_game_chat", "get_profile",
                   "get_my_profile", "get_my_preferences"}

\* what a method returns for a reply
CallResult(call, reply) == IF ReturnsData(call) THEN DataCall(reply) ELSE UnitCall(reply)

\* the requests send() puts on the wire for one call when a failed request
\* is sent a second time
SendTwiceOnFailure(client, built, reply) ==
    LET sent == [method |-> built.method, url |-> join_url(client.base_url, built.path),
                 query |-> built.query, json |-> built.json, form |-> built.form,
                 authorization |-> client.authorization]
    IN  IF reply.kind = "transport" THEN <<sent, sent>> ELSE <<sent>>
\* the requests send() puts on the wire for one call: the client's request
\* to the joined URL, with the default headers of the client
Send(client, built, reply) ==
    <<[method |-> built.method, url |-> join_url(client.base_url, built.path),
       query |-> built.query, json |-> built.json, form |-> built.form,
       authorization |-> client.authorization]>>

\* the state of a builder and of the client built from it: the calls made
\* on the builder, the builder, the result of build, the method calls the
\* model makes on the client, and the last method call with its reply and
\* its result
ClientProbe(pc, history, builder, built, budget) ==
    [fn |-> "BotClient", done |-> pc # "builder", pc |-> pc, history |-> history,
     builder |-> builder, built |-> built, budget |-> budget, calls |-> 0,
     call |-> CallOf("-", NoArgs), reply |-> TransportFailure, result |-> NoResult]

ClientInit ==
    /\ botId = "u1"
    /\ evStream = <<>>
    /\ evPos = 0
    /\ evLoop = "not_started"
    /\ units = <<>>
    /\ games = [i \in 1..MaxEvents |-> NoGame]
    /\ botEvents = <<>>
    /\ requests = <<>>
    /\ probe = ClientProbe("builder", <<>>, NewBuilder, BuildErr("-"), MaxCallsAfterBuild)

\* BotClientBuilder::with_token
WithToken ==
    /\ probe.fn = "BotClient"
    /\ probe.pc = "builder"
    /\ Len(probe.history) < MaxBuilderCalls
    /\ \E token \in TokenArgs :
          probe' = [probe EXCEPT
                !.history = Append(@, [op |-> "with_token", arg |-> token]),
                !.builder.token = Some(token)]
    /\ UNCHANGED dispatchVars

\* BotClientBuilder::with_base_url
WithBaseUrl ==
    /\ probe.fn = "BotClient"
    /\ probe.pc = "builder"
    /\ Len(probe.history) < MaxBuilderCalls
    /\ \E base_url \in BaseUrlArgs :
          probe' = [probe EXCEPT
                !.history = Append(@, [op |-> "with_base_url", arg |-> base_url]),
                !.builder.base_url = base_url]
    /\ UNCHANGED dispatchVars

\* BotClientBuilder::build
Build ==
    /\ probe.fn = "BotClient"
    /\ probe.pc = "builder"
    /\ \E client_built \in BOOLEAN :
          LET result == build(probe.builder, client_built)
          IN  probe' = [probe EXCEPT !.pc = IF result.ok THEN "client" ELSE "failed",
                                     !.done = TRUE,
                                     !.built = result]
    /\ UNCHANGED dispatchVars

\* one method call on the client: the request is built and sent, and the
\* reply is classified
CallClient ==
    /\ probe.fn = "BotClient"
    /\ probe.pc = "client"
    /\ probe.calls < probe.budget
    /\ \E call \in Calls, reply \in Replies :
          /\ requests' = requests \o Send(probe.built.client, BuildRequest(call), reply)
          /\ probe' = [probe EXCEPT !.calls = @ + 1,
                                    !.call = call,
                                    !.reply = reply,
                                    !.result = CallResult(call, reply)]
    /\ UNCHANGED <<botId, evStream, evPos, evLoop, units, games, botEvents>>

ClientNext == WithToken \/ WithBaseUrl \/ Build \/ CallClient

ClientSpec == ClientInit /\ [][ClientNext]_vars

\* a client on its own, called more than once: it was built with the token
\* "ab", with the default base URL or with "http://mock/"
RepeatHistories ==
    {<<[op |-> "with_token", arg |-> <<97, 98>>]>>,
     <<[op |-> "with_token", arg |-> <<97, 98>>],
       [op |-> "with_base_url", arg |-> <<"http:", Slash, Slash, "mock", Slash>>]>>}

\* the builder after the calls of a history that starts with with_token
\* and goes on with at most one with_base_url
RepeatBuilder(history) ==
    [token |-> Some(history[1].arg),
     base_url |-> IF Len(history) = 1 THEN DEFAULT_BASE_URL ELSE history[2].arg]

RepeatInit ==
    /\ botId = "u1"
    /\ evStream = <<>>
    /\ evPos = 0
    /\ evLoop = "not_started"
    /\ units = <<>>
    /\ games = [i \in 1..MaxEvents |-> NoGame]
    /\ botEvents = <<>>
    /\ requests = <<>>
    /\ \E history \in RepeatHistories :
          probe = ClientProbe("client", history, RepeatBuilder(history),
                              build(RepeatBuilder(history), TRUE), MaxCalls)

RepeatSpec == RepeatInit /\ [][CallClient]_vars

----------------------------------------------------------------------------
(* MoveConfirmations: a u8 of flags (src/src/model/user/preferences.rs)     *)

\* the largest flag value the model draws
MaxFlagValue == 63

\* bit k of a u8
Bit(x, k) == (x \div (2 ^ k)) % 2

\* u8 & u8
BitAnd(x, y) ==
    LET f[k \in 0..8] ==
            IF k = 8 THEN 0
            ELSE (IF Bit(x, k) = 1 /\ Bit(y, k) = 1 THEN 2 ^ k ELSE 0) + f[k + 1]
    IN  f[0]

\* u8 | u8
BitOr(x, y) ==
    LET f[k \in 0..8] ==
            IF k = 8 THEN 0
            ELSE (IF Bit(x, k) = 1 \/ Bit(y, k) = 1 THEN 2 ^ k ELSE 0) + f[k + 1]
    IN  f[0]

\* struct MoveConfirmations(u8): the values the model draws
MoveConfirmations == 0..MaxFlagValue

EMPTY == 0
UNLIMITED == 1
CORRESPONDENCE == 2
CLASSICAL == 4
RAPID == 8
BLITZ == 16

contains(self, mask) == BitAnd(self, mask) # 0

for_unlimited(self) == contains(self, UNLIMITED)
for_correspondence(self) == contains(self, CORRESPONDENCE)
for_classical(self) == contains(self, CLASSICAL)
for_rapid(self) == contains(self, RAPID)
for_blitz(self) == contains(self, BLITZ)

\* a bitor that keeps only the flags both sides have
bitor_as_and(self, rhs) == BitAnd(self, rhs)

\* impl BitOr for MoveConfirmations
bitor(self, rhs) == BitOr(self, rhs)

\* the answers of the five queries on one value
Queries(self) ==
    [for_unlimited |-> for_unlimited(self),
     for_correspondence |-> for_correspondence(self),
     for_classical |-> for_classical(self),
     for_rapid |-> for_rapid(self),
     for_blitz |-> for_blitz(self)]

\* three values are drawn; nothing has been computed yet
FlagsInit ==
    /\ Idle
    /\ probe \in [fn : {"MoveConfirmations"}, done : {FALSE},
                  a : MoveConfirmations, b : MoveConfirmations,
                  c : {EMPTY, BLITZ, MaxFlagValue},
                  or : {<<>>}, q : {<<>>}]

\* the values are combined with | and queried
CombineFlags ==
    /\ probe.fn = "MoveConfirmations"
    /\ ~probe.done
    /\ LET a == probe.a
           b == probe.b
           c == probe.c
       IN  probe' = [probe EXCEPT
                !.done = TRUE,
                !.or = [ab |-> bitor(a, b), ba |-> bitor(b, a),
                        ab_c |-> bitor(bitor(a, b), c), a_bc |-> bitor(a, bitor(b, c)),
                        aa |-> bitor(a, a),
                        a_empty |-> bitor(a, EMPTY), empty_a |-> bitor(EMPTY, a)],
                !.q = [a |-> Queries(a), b |-> Queries(b),
                       ab |-> Queries(bitor(a, b)), empty |-> Queries(EMPTY)]]
    /\ UNCHANGED dispatchVars

FlagsSpec == FlagsInit /\ [][CombineFlags]_vars

----------------------------------------------------------------------------
(* Properties *)

\* the callback the Bot trait provides for each kind of bot event
ExpectedBotCallback(type) ==
    CASE type = "GameStart" -> "on_game_start"
      [] type = "GameFinish" -> "on_game_finish"
      [] type = "Challenge" -> "on_challenge"
      [] type = "ChallengeCanceled" -> "on_challenge_cancelled"
      [] type = "ChallengeDeclined" -> "on_challenge_declined"
      [] OTHER -> "none"

\* the callback the Bot trait provides for each kind of later game event
ExpectedGameCallback(type) ==
    CASE type = "GameState" -> "on_game_state"
      [] type = "ChatLine" -> "on_chat_line"
      [] type = "OpponentGone" -> "on_opponent_gone"
      [] OTHER -> "none"

AllDecoded == BotDecodeErr \notin Range(evStream)

\* the entries of botEvents made for the k-th record of the primary stream
DeliveriesOf(k) == {e \in 1..Len(botEvents) : botEvents[e].unit = k}

DeliveredAsItShould(k) ==
    /\ Cardinality(DeliveriesOf(k)) = 1
    /\ \A e \in DeliveriesOf(k) :
          /\ botEvents[e].ev = evStream[k]
          /\ botEvents[e].cb = ExpectedBotCallback(evStream[k].type)

\* some callback of the Bot has panicked
SomeHandlerPanicked ==
    \/ \E i \in 1..Len(units) : units[i].why = "handler"
    \/ \E i \in 1..MaxEvents : \E j \in 1..Len(games[i].gunits) :
          games[i].gunits[j].why = "handler"

\* C1 (as claimed): for a primary stream of successfully decoded events whose
\* handlers do not panic, once the run has come to rest every event has been
\* delivered exactly once, to the callback matching its variant.
C1_EveryEventDelivered ==
    (AllDecoded /\ ~SomeHandlerPanicked /\ ~ENABLED Next)
        => \A k \in 1..Len(evStream) : DeliveredAsItShould(k)

\* C1 (amended): every delivery is of a record read off the stream, to the
\* callback matching its variant, and no record is delivered twice; when
\* run_with_event_stream returns, every event of the input has been delivered
\* exactly once.
C1_DeliveredOnceAndAllAtReturn ==
    /\ \A e \in 1..Len(botEvents) :
          /\ botEvents[e].unit \in 1..evPos
          /\ botEvents[e].ev = evStream[botEvents[e].unit]
          /\ botEvents[e].cb = ExpectedBotCallback(botEvents[e].ev.type)
          /\ Cardinality(DeliveriesOf(botEvents[e].unit)) = 1
    /\ evLoop = "done" =>
          /\ AllDecoded
          /\ Len(botEvents) = Len(evStream)
          /\ \A k \in 1..Len(evStream) : DeliveredAsItShould(k)

C1_Witness ==
    /\ evLoop = "done"
    /\ Len(evStream) = 2
    /\ evStream[1].type = "ChallengeCanceled"
    /\ evStream[2].type = "GameStart"
    /\ \A k \in 1..2 : DeliveredAsItShould(k)

\* the on_game_state of the state embedded in GameFull has returned
InitialStateHandled(i) ==
    \/ games[i].phase \in {"Streaming", "Done"}
    \/ games[i].phase = "Panicked" /\ units[i].why = "join"

\* the entries of game i's log made for its j-th later record
GameDeliveriesOf(i, j) == {e \in 1..Len(games[i].log) : games[i].log[e].rec = j}

LaterRecordTypes(i) == {games[i].gunits[j].rec.type : j \in 1..Len(games[i].gunits)}

\* C2: on a per-game stream that starts with GameFull followed by GameState,
\* ChatLine and OpponentGone records, on_game_state is called exactly once for
\* the embedded state, as the first callback, and has returned before any
\* later record is dispatched; each later record is delivered at most once, to
\* the callback matching its variant; and when run_with_game_event_stream
\* returns, each of the k later records has been delivered exactly once.
C2_PerGameSession ==
    \A i \in 1..MaxEvents :
        LET g == games[i] IN
        (g.first.type = "GameFull"
            /\ LaterRecordTypes(i) \subseteq {"GameState", "ChatLine", "OpponentGone"})
        => /\ Len(g.log) >= 1
           /\ g.log[1].rec = 0
           /\ g.log[1].cb = "on_game_state"
           /\ g.log[1].ev = GameStateEv(g.first.state)
           /\ Cardinality(GameDeliveriesOf(i, 0)) = 1
           /\ Len(g.gunits) > 0 => InitialStateHandled(i)
           /\ \A e \in 2..Len(g.log) :
                 /\ g.log[e].rec \in 1..Len(g.gunits)
                 /\ g.log[e].ev = g.gunits[g.log[e].rec].rec
                 /\ g.log[e].cb = ExpectedGameCallback(g.log[e].ev.type)
                 /\ Cardinality(GameDeliveriesOf(i, g.log[e].rec)) = 1
           /\ g.phase = "Done" =>
                 /\ Len(g.log) = Len(g.gunits) + 1
                 /\ \A j \in 1..Len(g.gunits) : Cardinality(GameDeliveriesOf(i, j)) = 1

C2_Witness ==
    \E i \in 1..MaxEvents :
        /\ games[i].phase = "Done"
        /\ games[i].first.type = "GameFull"
        /\ Len(games[i].gunits) = 2
        /\ games[i].gunits[1].rec.type = "ChatLine"
        /\ games[i].gunits[2].rec.type = "OpponentGone"
        /\ Len(games[i].log) = 3

UnitPending(i) == units[i].pc \in {"in_callback", "returned", "game"}

\* C4: while a unit of the primary stream is pending (in its handler, or in
\* its nested per-game loop), the top-level loop can take the next record off
\* the stream and spawn its unit, and every other spawned unit can enter its
\* callback.
C4_PendingUnitNeverBlocks ==
    \A i \in 1..Len(units) :
        UnitPending(i) =>
            /\ (evLoop = "running" /\ evPos < Len(evStream)) => ENABLED SpawnBotUnit
            /\ \A k \in 1..Len(units) :
                  (k # i /\ units[k].pc = "spawned" /\ units[k].rec # BotDecodeErr)
                      => ENABLED EnterBotCallback(k)

C4_Witness ==
    /\ Len(units) = 2
    /\ units[1].pc = "game"
    /\ games[1].phase = "FirstCallback"
    /\ units[2].pc = "done"
    /\ units[2].joined
    /\ evLoop = "running"

GameStartsWithId == {k \in 1..Len(evStream) : evStream[k].type = "GameStart" /\ evStream[k].id # NoId}

RequestsOf(i) == {r \in 1..Len(requests) : requests[r].unit = i}

\* C5: a per-game stream is requested only by the unit of a GameStart event
\* with an id, after its on_game_start was called and has returned, as a GET of
\* /bot/game/stream/{id}, at most once per unit; a per-game loop runs only in a
\* unit that made the request, and inside that unit; when
\* run_with_event_stream returns, the number of requests equals the number of
\* GameStart events with an id.
C5_OneStreamPerGameStart ==
    /\ \A r \in 1..Len(requests) :
          LET i == requests[r].unit IN
          /\ i \in 1..Len(units)
          /\ units[i].rec.type = "GameStart"
          /\ units[i].rec.id # NoId
          /\ requests[r].method = "GET"
          /\ requests[r].path = "/bot/game/stream/" \o units[i].rec.id
          /\ Cardinality(RequestsOf(i)) = 1
          /\ units[i].pc \in {"game", "done", "panicked"}
          /\ \E e \in DeliveriesOf(i) : botEvents[e].cb = "on_game_start"
    /\ \A i \in 1..MaxEvents :
          /\ games[i].phase # "none" => RequestsOf(i) # {}
          /\ games[i].phase \in {"AwaitFull", "FirstCallback", "Streaming"}
                => units[i].pc = "game"
    /\ evLoop = "done" => Len(requests) = Cardinality(GameStartsWithId)

C5_Witness ==
    /\ evLoop = "done"
    /\ Len(evStream) = 2
    /\ evStream[1] = evStream[2]
    /\ Len(requests) = 2
    /\ requests[1].path = requests[2].path
    /\ requests[1].unit # requests[2].unit

\* C6: in each per-game stream the GameContext is built at most once, and only
\* from a GameFull first record; every callback of the stream is given the
\* same context, whose bot_id is the bot's id, whose info is the info of the
\* GameFull record and whose bot_color is the color derived from them.
C6_ContextDerivedOnce ==
    \A i \in 1..MaxEvents :
        LET g == games[i] IN
        /\ g.built <= 1
        /\ g.built = 1 <=> g.first.type = "GameFull"
        /\ g.built = 0 => g.ctx = NoContext /\ g.log = <<>>
        /\ \A e \in 1..Len(g.log) :
              /\ g.log[e].ctx = g.log[1].ctx
              /\ g.log[e].ctx = g.ctx
              /\ g.log[e].ctx.bot_id = botId
              /\ g.log[e].ctx.info = g.first.info
              /\ g.log[e].ctx.bot_color = color_of(botId, g.first.info)

C6_Witness ==
    \E i \in 1..MaxEvents :
        /\ Len(games[i].gunits) = 2
        /\ games[i].gunits[1].rec.type = "GameFull"
        /\ games[i].gunits[1].rec.info # games[i].first.info
        /\ games[i].gunits[2].rec.type = "GameState"
        /\ Len(games[i].log) = 2
        /\ games[i].log[2].rec = 2
        /\ games[i].ctx.bot_color = "White"

\* C7 (as claimed): the bot_color is White when the white seat's id equals
\* the bot's id, Black when the black seat's id equals the bot's id, and None
\* when neither does.
C7_ColorBySeat ==
    (probe.fn = "GameContext" /\ probe.done) =>
        /\ probe.info.white = probe.bot_id => probe.ctx.bot_color = "White"
        /\ probe.info.black = probe.bot_id => probe.ctx.bot_color = "Black"
        /\ (probe.info.white # probe.bot_id /\ probe.info.black # probe.bot_id)
              => probe.ctx.bot_color = "None"

\* C7 (amended): the bot_color is White when the white seat's id equals the
\* bot's id, Black when the black seat's id equals the bot's id and the white
\* seat's does not, and None when neither does.
C7_ColorBySeatWhiteFirst ==
    (probe.fn = "GameContext" /\ probe.done) =>
        /\ probe.info.white = probe.bot_id => probe.ctx.bot_color = "White"
        /\ (probe.info.black = probe.bot_id /\ probe.info.white # probe.bot_id)
              => probe.ctx.bot_color = "Black"
        /\ (probe.info.white # probe.bot_id /\ probe.info.black # probe.bot_id)
              => probe.ctx.bot_color = "None"

C7_Witness ==
    /\ probe.fn = "GameContext"
    /\ probe.done
    /\ probe.info.white = probe.bot_id
    /\ probe.info.black = probe.bot_id
    /\ probe.ctx.bot_color = "White"

\* C8: when the first record of a per-game stream is not a decoded GameFull,
\* the per-game loop has panicked, and the unit it runs in with it: no callback
\* was called for the stream, no GameContext was built and no later record was
\* dispatched.
C8_FirstRecordMustBeGameFull ==
    \A i \in 1..MaxEvents :
        LET g == games[i] IN
        (g.first # EndOfStream /\ g.first.type # "GameFull")
        => /\ g.phase = "Panicked"
           /\ units[i].pc = "panicked"
           /\ g.log = <<>>
           /\ g.built = 0
           /\ g.ctx = NoContext
           /\ g.gunits = <<>>

C8_Witness ==
    \E i \in 1..MaxEvents :
        /\ games[i].first.type = "ChatLine"
        /\ games[i].phase = "Panicked"
        /\ evLoop = "panicked"

\* C9: a GameFull record after the first is never delivered to a callback and
\* its task never finishes normally; the GameContext stays the one built from
\* the first record; and run_with_game_event_stream does not return.
C9_LaterGameFullIsFatal ==
    \A i \in 1..MaxEvents :
        LET g == games[i] IN
        \A j \in 1..Len(g.gunits) :
            g.gunits[j].rec.type = "GameFull"
            => /\ GameDeliveriesOf(i, j) = {}
               /\ g.gunits[j].pc \in {"spawned", "panicked"}
               /\ g.built = 1
               /\ g.ctx = NewGameContext(botId, g.first.info)
               /\ \A m \in 1..Len(g.gunits) : g.gunits[m].ctx = g.ctx
               /\ g.phase \in {"Streaming", "Panicked"}
               /\ units[i].pc \in {"game", "panicked"}

C9_Witness ==
    \E i \in 1..MaxEvents :
        /\ Len(games[i].gunits) = 1
        /\ games[i].gunits[1].rec.type = "GameFull"
        /\ games[i].gunits[1].rec.info # games[i].first.info
        /\ games[i].gunits[1].why = "protocol"
        /\ games[i].phase = "Panicked"
        /\ units[i].why = "join"

\* C10 (as claimed): no record that follows a record that failed to decode,
\* on the primary stream or on a per-game stream, is delivered to a callback,
\* and a loop that read such a record does not return.
C10_NothingAfterBadRecord ==
    /\ \A e \in 1..Len(botEvents) :
          \A k \in 1..Len(units) : units[k].rec = BotDecodeErr => botEvents[e].unit < k
    /\ (\E k \in 1..Len(units) : units[k].rec = BotDecodeErr) => evLoop # "done"
    /\ \A i \in 1..MaxEvents :
          LET g == games[i] IN
          /\ \A e \in 1..Len(g.log) :
                \A j \in 1..Len(g.gunits) :
                    g.gunits[j].rec = GameDecodeErr => g.log[e].rec < j
          /\ (\E j \in 1..Len(g.gunits) : g.gunits[j].rec = GameDecodeErr)
                => g.phase # "Done"

----------------------------------------------------------------------------
(* Start-up of run *)

\* the requests run itself has sent, in order
RunRequests == SelectSeq(requests, LAMBDA q : q.unit = 0)

\* no callback of the Bot has been entered
NoCallbackInvoked ==
    /\ botEvents = <<>>
    /\ \A i \in 1..MaxEvents : games[i].log = <<>>

\* a reply that is no success: no response at all, or a status outside 2xx
FailedReply(reply) == reply.kind = "transport" \/ reply.status \notin 200..299

\* a reply to a data call that gives no value
NoValueReply(reply) == FailedReply(reply) \/ ~reply.readable \/ reply.text = Garbage

\* C11: run fetches the profile (GET /account) exactly once and before it
\* opens the primary stream (GET /stream/event); when the profile fetch
\* fails run panics, the event stream is never requested and no callback is
\* invoked; when opening the event stream fails (transport error or non-2xx
\* status) run returns that error as Err and no callback is invoked
C11_StartupOrder ==
    /\ probe.fn = "run"
    /\ Len(RunRequests) = Len(probe.replies)
    /\ Len(RunRequests) <= 2
    /\ Len(RunRequests) >= 1 => RunRequests[1] = [unit |-> 0, method |-> "GET", path |-> "/account"]
    /\ Len(RunRequests) = 2 => RunRequests[2] = [unit |-> 0, method |-> "GET", path |-> "/stream/event"]
    /\ probe.pc = "profile" <=> RunRequests = <<>>
    /\ (probe.pc # "profile" /\ NoValueReply(probe.replies[1])) =>
            /\ probe.pc = "unwrap_panicked"
            /\ Len(RunRequests) = 1
            /\ evLoop = "not_started"
            /\ NoCallbackInvoked
    /\ (Len(probe.replies) = 2 /\ FailedReply(probe.replies[2])) =>
            /\ probe.pc = "err"
            /\ ~probe.result.ok
            /\ probe.result.err =
                    IF probe.replies[2].kind = "transport" THEN "ReqwestError" ELSE "ApiError"
            /\ probe.result.err = "ApiError" => probe.result.status = probe.replies[2].status
            /\ evLoop = "not_started"
            /\ NoCallbackInvoked
    /\ (evLoop # "not_started" \/ ~NoCallbackInvoked) =>
            /\ Len(RunRequests) = 2
            /\ ~NoValueReply(probe.replies[1])
            /\ ~FailedReply(probe.replies[2])
            /\ botId = probe.replies[1].text

\* the event stream answers 404 after the profile was fetched: run has
\* returned the ApiError
C11_Witness ==
    /\ probe.fn = "run"
    /\ probe.pc = "err"
    /\ probe.result.err = "ApiError"
    /\ probe.result.status = 404
    /\ Len(RunRequests) = 2

----------------------------------------------------------------------------
(* Shutdown *)

\* every task run_with_event_stream spawned has finished and was joined, and
\* so has every task of every nested per-game loop
EverythingFinished ==
    /\ evPos = Len(evStream)
    /\ Len(units) = Len(evStream)
    /\ \A i \in 1..Len(units) :
          /\ units[i].pc = "done"
          /\ units[i].joined
          /\ games[i].phase \in {"none", "Done"}
          /\ \A j \in 1..Len(games[i].gunits) :
                /\ games[i].gunits[j].pc = "done"
                /\ games[i].gunits[j].joined

\* a record was rejected: it failed to decode, or it broke the order of a
\* per-game stream
SomeRecordRejected ==
    \/ \E i \in 1..Len(units) : units[i].why \in {"unwrap", "protocol"}
    \/ \E i \in 1..MaxEvents : \E j \in 1..Len(games[i].gunits) :
          games[i].gunits[j].why \in {"unwrap", "protocol"}

\* C12 (as claimed): once the primary stream has ended, every opened
\* per-game stream has ended and every handler has returned, the run comes
\* to rest with run_with_event_stream returned, run yielding Ok and no
\* spawned unit still running
C12_ReturnsWhenHandlersReturn ==
    (/\ evLoop # "not_started"
     /\ evPos = Len(evStream)
     /\ ~SomeHandlerPanicked
     /\ ~ENABLED RunNext)
        => /\ evLoop = "done"
           /\ probe.pc = "ok"
           /\ EverythingFinished

\* C12 (amended): run_with_event_stream has returned only when the primary
\* stream has ended and every unit it spawned, every nested per-game loop
\* and every per-game handler unit has finished and was joined; run yields
\* Ok only then; and under fair scheduling a started run_with_event_stream
\* eventually returns and run yields Ok, unless a handler panics or a record
\* is rejected (a decode failure, or a per-game record out of order)
C12_JoinsEverything ==
    /\ [](evLoop = "done" => EverythingFinished)
    /\ [](probe.pc = "ok" => (evLoop = "done" /\ EverythingFinished))
    /\ (evLoop = "running") ~>
            (probe.pc = "ok" \/ SomeHandlerPanicked \/ SomeRecordRejected)

\* run has yielded Ok after a game whose stream carried a record after the
\* GameFull
C12_Witness ==
    /\ probe.fn = "run"
    /\ probe.pc = "ok"
    /\ \E i \in 1..Len(units) :
          /\ games[i].phase = "Done"
          /\ Len(games[i].gunits) >= 1

----------------------------------------------------------------------------
(* URL joining *)

\* s without its trailing slashes, and s without its leading slashes
RECURSIVE TrimEnd(_)
TrimEnd(s) == IF ends_with(s, Slash) THEN TrimEnd(pop(s)) ELSE s
RECURSIVE TrimStart(_)
TrimStart(s) == IF starts_with(s, Slash) THEN TrimStart(Tail(s)) ELSE s

\* s without one trailing slash, and s without one leading slash
TrimEndOnce(s) == IF ends_with(s, Slash) THEN pop(s) ELSE s
TrimStartOnce(s) == IF starts_with(s, Slash) THEN Tail(s) ELSE s

\* C15 (as claimed): for all strings base and path the joined URL is the
\* base, exactly one '/', and the path, whatever slashes the base ends with
\* or the path starts with: never a double or a missing slash at the join
C15_OneSlashForAllStrings ==
    (probe.fn = "join_url" /\ probe.done) =>
        probe.url = TrimEnd(probe.base_url) \o <<Slash>> \o TrimStart(probe.path)

\* C15 (amended): join_url removes at most one trailing slash of the base
\* and supplies the leading slash of the path when it has none; so there is
\* exactly one '/' at the join when the base ends with at most one slash and
\* the path starts with at most one, and then the four combinations of a
\* base with or without its trailing slash and a path with or without its
\* leading slash give the same URL; every further slash of either input is
\* kept
C15_OneSlashTrimmedOrAdded ==
    (probe.fn = "join_url" /\ probe.done) =>
        LET b == TrimEndOnce(probe.base_url)
            p == TrimStartOnce(probe.path)
        IN  /\ probe.url = b \o <<Slash>> \o p
            /\ (~ends_with(b, Slash) /\ ~starts_with(p, Slash)) =>
                  /\ probe.url = TrimEnd(probe.base_url) \o <<Slash>> \o TrimStart(probe.path)
                  /\ join_url(b, p) = probe.url
                  /\ join_url(Append(b, Slash), p) = probe.url
                  /\ join_url(b, <<Slash>> \o p) = probe.url
                  /\ join_url(Append(b, Slash), <<Slash>> \o p) = probe.url

\* a base with a trailing slash was joined with a path with a leading slash
C15_Witness ==
    /\ probe.fn = "join_url"
    /\ probe.done
    /\ probe.base_url = <<"a", Slash>>
    /\ probe.path = <<Slash, "a">>
    /\ probe.url = <<"a", Slash, "a">>

----------------------------------------------------------------------------
(* Status reconciliation *)

\* the two tables as the claim lists them
ClaimedStatusTable ==
    {<<10, "created", "Created">>, <<20, "started", "Started">>,
     <<25, "aborted", "Aborted">>, <<30, "mate", "Mate">>, <<31, "resign", "Resign">>,
     <<32, "stalemate", "Stalemate">>, <<33, "timeout", "Timeout">>,
     <<34, "draw", "Draw">>, <<35, "outoftime", "OutOfTime">>, <<36, "cheat", "Cheat">>,
     <<37, "noStart", "NoStart">>, <<38, "unknownFinish", "UnknownFinish">>,
     <<60, "variantEnd", "VariantEnd">>}

\* what a present field maps to by the claimed table: a set with the one
\* status, or the empty set when the field is not in the table
ClaimedById(id) == {row[3] : row \in {r \in ClaimedStatusTable : r[1] = id}}
ClaimedByName(name) == {row[3] : row \in {r \in ClaimedStatusTable : r[2] = name}}

\* C16: the id table and the name table are the claimed ones, each a
\* bijection onto the 13 statuses, agreeing row by row; a status object
\* decodes to Some(s) when only one field is present and maps to s or both
\* are present and map to s, to None when the object is null or has neither
\* field, and to an error when a present field is not in its table or the
\* two fields map to different statuses
C16_StatusReconciled ==
    /\ Cardinality(ClaimedStatusTable) = 13
    /\ {row[3] : row \in ClaimedStatusTable} = GameStatus
    /\ Cardinality({row[1] : row \in ClaimedStatusTable}) = 13
    /\ Cardinality({row[2] : row \in ClaimedStatusTable}) = 13
    /\ \A id \in StatusIds :
          LET r == game_status_from_id(id)
          IN  IF ClaimedById(id) = {} THEN ~r.ok ELSE r.ok /\ ClaimedById(id) = {r.value}
    /\ \A name \in StatusNames :
          LET r == game_status_from_name(name)
          IN  IF ClaimedByName(name) = {} THEN ~r.ok
              ELSE r.ok /\ ClaimedByName(name) = {r.value}
    /\ (probe.fn = "GameStatus" /\ probe.done) =>
          IF probe.json = None
          THEN probe.result = StatusOk(None)
          ELSE LET o == probe.json[1]
                   ids == IF o.id = None THEN {} ELSE ClaimedById(o.id[1])
                   names == IF o.name = None THEN {} ELSE ClaimedByName(o.name[1])
               IN  CASE o.id = None /\ o.name = None -> probe.result = StatusOk(None)
                     [] o.id # None /\ ids = {} -> ~probe.result.ok
                     [] o.name # None /\ names = {} -> ~probe.result.ok
                     [] o.id # None /\ o.name # None /\ ids # names -> ~probe.result.ok
                     [] OTHER ->
                          /\ probe.result.ok
                          /\ probe.result.value # None
                          /\ {probe.result.value[1]} = ids \cup names

\* id 10 with name aborted was rejected as a mismatch
C16_Witness ==
    /\ probe.fn = "GameStatus"
    /\ probe.done
    /\ probe.json = Some([id |-> Some(10), name |-> Some("aborted")])
    /\ probe.result = StatusErr("IdNameMismatch")

----------------------------------------------------------------------------
(* Variant decode *)

\* the variant a key names, as a set: empty when the key names none
NamedVariant(key) ==
    {v \in {"Standard", "Chess960", "Crazyhouse", "Antichess", "Atomic", "Horde",
            "KingOfTheHill", "RacingKings", "ThreeCheck", "FromPosition"} :
        DeserializeVariant([kind |-> "object", key |-> Some(key), extra |-> {}])
            = DecodeOk(v)}

EmptyObject == [kind |-> "object", key |-> None, extra |-> {}]

\* C17: an object whose key names variant v decodes to Some(v) whatever
\* other fields it has, the empty object decodes to None, and nothing else
\* does: an object that is not empty and names no variant is rejected with
\* a decode error
C17_NoneOnlyForEmptyObject ==
    (probe.fn = "Variant" /\ probe.done /\ probe.json.kind = "object") =>
        LET named == IF probe.json.key = None THEN {} ELSE NamedVariant(probe.json.key[1])
        IN  /\ named # {} => (probe.result.ok /\ probe.result.value # None
                                /\ named = {probe.result.value[1]})
            /\ probe.json = EmptyObject => probe.result = DecodeOk(None)
            /\ probe.result = DecodeOk(None) => probe.json = EmptyObject
            /\ (named = {} /\ probe.json # EmptyObject) => ~probe.result.ok

----------------------------------------------------------------------------
(* The calls of a BotClient *)

\* the request the last call has put on the wire
LastRequest == requests[Len(requests)]

\* C13: every call has one outcome, fixed by the reply: no response at all
\* gives a networking error; otherwise a status outside 2xx gives an ApiError
\* with that status and with the body text when it can be read and no body
\* when it cannot, whether or not the body would decode; otherwise the call
\* succeeds, and a call that returns data gives the decoded value, or an
\* error and no value when the body cannot be read or does not decode
C13_ResponseClassified ==
    (probe.fn = "BotClient" /\ probe.calls >= 1) =>
        LET reply == probe.reply
            result == probe.result
        IN  /\ result.ok \in BOOLEAN
            /\ result.ok => result.err = "-"
            /\ ~result.ok => (result.err \in {"ReqwestError", "ApiError"} /\ result.value = NoId)
            /\ CASE reply.kind = "transport" ->
                        /\ ~result.ok
                        /\ result.err = "ReqwestError"
                 [] reply.kind # "transport" /\ reply.status \notin 200..299 ->
                        /\ ~result.ok
                        /\ result.err = "ApiError"
                        /\ result.status = reply.status
                        /\ result.body = IF reply.readable THEN reply.text ELSE NoBody
                 [] OTHER ->
                        IF probe.call.name \in {"get_pending_challenges", "get_game_chat",
                                                "get_profile", "get_my_profile",
                                                "get_my_preferences"}
                        THEN IF reply.readable /\ reply.text # Garbage
                             THEN result.ok /\ result.value = reply.text
                             ELSE ~result.ok /\ result.err # "ApiError"
                        ELSE result.ok /\ result.value = "()"

\* a data call was answered 404 with a body that could not be read: an
\* ApiError without a body
C13_Witness ==
    /\ probe.fn = "BotClient"
    /\ probe.calls = 1
    /\ probe.call.name = "get_my_preferences"
    /\ probe.reply.kind = "response"
    /\ probe.reply.status = 404
    /\ ~probe.reply.readable
    /\ probe.result = ErrResult("ApiError", 404, NoBody)

\* C14: every method call puts exactly one request on the wire, whatever
\* its outcome: after n calls n requests were sent, the last of them the
\* request of the last call, also when that call repeats the one before it
\* or fails
C14_OneRequestPerCall ==
    (probe.fn = "BotClient" /\ probe.pc = "client") =>
        /\ Len(requests) = probe.calls
        /\ probe.calls >= 1 =>
              /\ LastRequest.method = BuildRequest(probe.call).method
              /\ LastRequest.url = join_url(probe.built.client.base_url,
                                            BuildRequest(probe.call).path)

\* the same call was made twice, the second time without getting a
\* response, and was sent twice
C14_Witness ==
    /\ probe.fn = "BotClient"
    /\ probe.calls = 2
    /\ Len(requests) = 2
    /\ requests[1] = requests[2]
    /\ probe.reply.kind = "transport"
    /\ ~probe.result.ok

----------------------------------------------------------------------------
(* Decline-request serialization *)

\* the wire strings as the claim lists them
ClaimedWireString(reason) ==
    CASE reason = <<"Generic">> -> "generic"
      [] reason = <<"Later">> -> "later"
      [] reason = <<"Too", "Fast">> -> "tooFast"
      [] reason = <<"Too", "Slow">> -> "tooSlow"
      [] reason = <<"Time", "Control">> -> "timeControl"
      [] reason = <<"Rated">> -> "rated"
      [] reason = <<"Casual">> -> "casual"
      [] reason = <<"Standard">> -> "standard"
      [] reason = <<"Variant">> -> "variant"
      [] reason = <<"No", "Bot">> -> "noBot"
      [] reason = <<"Only", "Bot">> -> "onlyBot"

ClaimedDeclineBody(reason) ==
    IF reason = None THEN "{}"
    ELSE "{\"reason\":\"" \o ClaimedWireString(reason[1]) \o "\"}"

\* C18: a DeclineRequest without a reason serializes to {}, one with reason
\* r to the object with the single field reason and r's wire string, the
\* wire strings being the claimed ones and different for the 11 reasons;
\* and decline_challenge sends this text as its JSON body
C18_DeclineBody ==
    /\ Cardinality(DeclineReason) = 11
    /\ Cardinality({ClaimedWireString(r) : r \in DeclineReason}) = 11
    /\ \A reason \in {None} \cup {Some(r) : r \in DeclineReason} :
          SerializeDeclineRequest(reason) = ClaimedDeclineBody(reason)
    /\ (probe.fn = "BotClient" /\ probe.calls >= 1) =>
          LastRequest.json =
              IF probe.call.name = "decline_challenge"
              THEN ClaimedDeclineBody(probe.call.reason)
              ELSE NoBody

\* a challenge was declined as too fast, and one without a reason
C18_Witness ==
    /\ probe.fn = "BotClient"
    /\ probe.calls = 1
    /\ probe.call.name = "decline_challenge"
    /\ probe.call.reason = Some(<<"Too", "Fast">>)
    /\ LastRequest.json = "{\"reason\":\"tooFast\"}"

----------------------------------------------------------------------------
(* Client construction *)

\* the arguments of the op calls in a builder history, in order
ArgsOf(history, op) ==
    LET picked == SelectSeq(history, LAMBDA c : c.op = op)
    IN  [k \in 1..Len(picked) |-> picked[k].arg]

\* the last element of a sequence that is not empty
Last(seq) == seq[Len(seq)]

\* a token that cannot form a header value: it has a control character
\* other than the tab
CannotFormHeader(token) ==
    \E k \in 1..Len(token) : (token[k] < 32 /\ token[k] # 9) \/ token[k] = 127

\* the client the claim describes for a builder history with a token
ClaimedClient(history) ==
    [authorization |-> Bearer \o Last(ArgsOf(history, "with_token")),
     base_url |-> IF ArgsOf(history, "with_base_url") = <<>>
                  THEN <<"https:", "/", "/", "lichess.org", "/", "api">>
                  ELSE Last(ArgsOf(history, "with_base_url"))]

\* build gives NoToken exactly when with_token was never called, and
\* InvalidToken when the last token cannot form a header value
ErrorsAsClaimed ==
    LET tokens == ArgsOf(probe.history, "with_token")
    IN  /\ probe.built.err = "NoToken" <=> tokens = <<>>
        /\ (tokens # <<>> /\ CannotFormHeader(Last(tokens))) =>
                probe.built.err = "InvalidToken"
        /\ probe.built.err = "InvalidToken" =>
                (tokens # <<>> /\ CannotFormHeader(Last(tokens)))

\* C19 (as claimed): build gives NoToken exactly when with_token was never
\* called, InvalidToken when the last token cannot form a header value, and
\* in every other case a client with the last base URL given (or the
\* default one) whose every request carries the bearer token
C19_ClientBuiltOtherwise ==
    (probe.fn = "BotClient" /\ probe.pc # "builder") =>
        LET tokens == ArgsOf(probe.history, "with_token")
        IN  /\ ErrorsAsClaimed
            /\ (tokens # <<>> /\ ~CannotFormHeader(Last(tokens))) =>
                  /\ probe.built.ok
                  /\ probe.built.client = ClaimedClient(probe.history)
                  /\ \A k \in 1..Len(requests) :
                        requests[k].authorization = Bearer \o Last(tokens)

\* C19 (amended): build gives NoToken exactly when with_token was never
\* called, InvalidToken when the last token cannot form a header value, and
\* in every other case either ClientError, when the HTTP client could not be
\* created, or a client with the last base URL given (or the default one)
\* whose every request carries the bearer token; without a client no
\* request is sent
C19_ClientBuiltUnlessClientError ==
    (probe.fn = "BotClient" /\ probe.pc # "builder") =>
        LET tokens == ArgsOf(probe.history, "with_token")
        IN  /\ ErrorsAsClaimed
            /\ (tokens # <<>> /\ ~CannotFormHeader(Last(tokens))) =>
                  \/ probe.built.ok
                  \/ probe.built.err = "ClientError"
            /\ probe.built.ok =>
                  /\ probe.built.client = ClaimedClient(probe.history)
                  /\ \A k \in 1..Len(requests) :
                        requests[k].authorization = Bearer \o Last(tokens)
            /\ ~probe.built.ok => requests = <<>>

\* after a token that cannot form a header value, a good token and two base
\* URLs were given: the client has the last base URL and has sent a request
\* with the good token
C19_Witness ==
    /\ probe.fn = "BotClient"
    /\ probe.pc = "client"
    /\ probe.history =
          <<[op |-> "with_base_url", arg |-> <<"http:", "/", "/", "mock", "/">>],
            [op |-> "with_token", arg |-> <<97, 98>>],
            [op |-> "with_base_url", arg |-> <<"http:", "/", "/", "other", "/", "v2">>]>>
    /\ probe.calls = 1
    /\ LastRequest.authorization = Bearer \o <<97, 98>>
    /\ probe.built.client.base_url = <<"http:", "/", "/", "other", "/", "v2">>

----------------------------------------------------------------------------
(* Endpoint mapping *)

\* the endpoints as the claim lists them: the HTTP method and the path with
\* its placeholders, piece by piece
ClaimedEndpoint(name) ==
    CASE name = "accept_challenge" -> <<"POST", <<"/", "challenge", "/", "{id}", "/", "accept">>>>
      [] name = "decline_challenge" ->
            <<"POST", <<"/", "challenge", "/", "{id}", "/", "decline">>>>
      [] name = "make_move" ->
            <<"POST", <<"/", "bot", "/", "game", "/", "{id}", "/", "move", "/", "{mv}">>>>
      [] name = "abort_game" -> <<"POST", <<"/", "bot", "/", "game", "/", "{id}", "/", "abort">>>>
      [] name = "resign_game" ->
            <<"POST", <<"/", "bot", "/", "game", "/", "{id}", "/", "resign">>>>
      [] name = "offer_or_accept_draw" ->
            <<"POST", <<"/", "bot", "/", "game", "/", "{id}", "/", "draw", "/", "yes">>>>
      [] name = "decline_draw" ->
            <<"POST", <<"/", "bot", "/", "game", "/", "{id}", "/", "draw", "/", "no">>>>
      [] name = "add_time" ->
            <<"POST", <<"/", "round", "/", "{id}", "/", "add-time", "/", "{seconds}">>>>
      [] name = "get_game_chat" ->
            <<"GET", <<"/", "bot", "/", "game", "/", "{id}", "/", "chat">>>>
      [] name = "send_chat_message" ->
            <<"POST", <<"/", "bot", "/", "game", "/", "{id}", "/", "chat">>>>
      [] name = "get_profile" -> <<"GET", <<"/", "user", "/", "{username}">>>>
      [] name = "get_my_profile" -> <<"GET", <<"/", "account">>>>
      [] name = "get_my_preferences" -> <<"GET", <<"/", "account", "/", "preferences">>>>
      [] name = "get_pending_challenges" -> <<"GET", <<"/", "challenge">>>>

\* the decimal digits of the seconds of the model
ClaimedSeconds(seconds) == IF seconds = 15 THEN "15" ELSE "-1"

\* a placeholder filled in from the arguments of a call
Filled(piece, call) ==
    CASE piece \in {"{id}", "{username}"} -> call.id
      [] piece = "{mv}" -> call.mov
      [] piece = "{seconds}" -> ClaimedSeconds(call.seconds)
      [] OTHER -> piece

ClaimedPath(call) ==
    LET template == ClaimedEndpoint(call.name)[2]
    IN  [k \in 1..Len(template) |-> Filled(template[k], call)]

\* C20: every method sends the HTTP method of its endpoint to the path of
\* its endpoint under the base URL of the client, the path filled in from
\* the arguments; make_move carries the query offeringDraw=true or
\* offeringDraw=false as its flag says, and no other method has a query
C20_EndpointMapping ==
    (probe.fn = "BotClient" /\ probe.calls >= 1) =>
        LET base == probe.built.client.base_url
            trimmed == IF base[Len(base)] = "/" THEN SubSeq(base, 1, Len(base) - 1) ELSE base
        IN  /\ LastRequest.method = ClaimedEndpoint(probe.call.name)[1]
            /\ LastRequest.url = trimmed \o ClaimedPath(probe.call)
            /\ LastRequest.query =
                  IF probe.call.name = "make_move"
                  THEN <<<<"offeringDraw", IF probe.call.offer_draw THEN "true" ELSE "false">>>>
                  ELSE <<>>

\* a move was made with a draw offer, on a client whose base URL ends with
\* a slash
C20_Witness ==
    /\ probe.fn = "BotClient"
    /\ probe.calls = 1
    /\ probe.call.name = "make_move"
    /\ probe.call.offer_draw
    /\ LastRequest.method = "POST"
    /\ LastRequest.url = <<"http:", "/", "/", "mock", "/", "bot", "/", "game", "/", "g1",
                           "/", "move", "/", "e2e4">>
    /\ LastRequest.query = <<<<"offeringDraw", "true">>>>

----------------------------------------------------------------------------
(* One identity per run *)

\* the id of the profile run fetched at start-up
ProfileId == DataCall(probe.replies[1]).value

\* C21: every top-level callback invoked during one run is given a BotContext
\* whose bot_id is the id of the profile fetched at start-up, and every
\* GameContext built during the run, and every context a per-game callback is
\* given, carries that same bot_id
C21_OneIdentityPerRun ==
    (probe.fn = "run" /\ evLoop # "not_started") =>
        /\ ProfileId \in BotIds
        /\ botId = ProfileId
        /\ \A e \in 1..Len(botEvents) : botEvents[e].ctx = [bot_id |-> ProfileId]
        /\ \A i \in 1..MaxEvents :
              LET g == games[i] IN
              /\ g.built >= 1 => g.ctx.bot_id = ProfileId
              /\ \A j \in 1..Len(g.gunits) : g.gunits[j].ctx.bot_id = ProfileId
              /\ \A e \in 1..Len(g.log) : g.log[e].ctx.bot_id = ProfileId

\* a run of the bot "u2" that returned Ok after on_game_start and two
\* callbacks of the game it started
C21_Witness ==
    /\ probe.fn = "run"
    /\ probe.pc = "ok"
    /\ botId = "u2"
    /\ Len(botEvents) = 1
    /\ botEvents[1].cb = "on_game_start"
    /\ botEvents[1].ctx.bot_id = "u2"
    /\ Len(games[1].log) = 2
    /\ games[1].log[2].ctx.bot_id = "u2"

----------------------------------------------------------------------------
(* MoveConfirmations as a set of flags *)

QueryNames ==
    {"for_unlimited", "for_correspondence", "for_classical", "for_rapid", "for_blitz"}

\* the query each flag constant is named after
OwnQuery(flag) ==
    CASE flag = UNLIMITED -> "for_unlimited"
      [] flag = CORRESPONDENCE -> "for_correspondence"
      [] flag = CLASSICAL -> "for_classical"
      [] flag = RAPID -> "for_rapid"
      [] flag = BLITZ -> "for_blitz"

\* C22: for all values a and b, each of the five queries answers on a | b
\* what it answers on a or on b; | is commutative, associative and
\* idempotent, with EMPTY as its identity; every query is false on EMPTY; and
\* each of UNLIMITED, CORRESPONDENCE, CLASSICAL, RAPID, BLITZ answers true to
\* its own query and false to the other four
C22_FlagsUnderBitOr ==
    (probe.fn = "MoveConfirmations" /\ probe.done) =>
        /\ \A n \in QueryNames : probe.q.ab[n] = (probe.q.a[n] \/ probe.q.b[n])
        /\ probe.or.ab = probe.or.ba
        /\ probe.or.ab_c = probe.or.a_bc
        /\ probe.or.aa = probe.a
        /\ probe.or.a_empty = probe.a
        /\ probe.or.empty_a = probe.a
        /\ \A n \in QueryNames : ~probe.q.empty[n]
        /\ probe.a = EMPTY => \A n \in QueryNames : ~probe.q.a[n]
        /\ probe.a \in {UNLIMITED, CORRESPONDENCE, CLASSICAL, RAPID, BLITZ} =>
              \A n \in QueryNames : probe.q.a[n] = (n = OwnQuery(probe.a))

\* CLASSICAL | BLITZ, as in the test move_confirmations_bitor_works
C22_Witness ==
    /\ probe.fn = "MoveConfirmations"
    /\ probe.done
    /\ probe.a = CLASSICAL
    /\ probe.b = BLITZ
    /\ probe.or.ab = 20
    /\ probe.q.ab.for_classical
    /\ probe.q.ab.for_blitz
    /\ ~probe.q.ab.for_rapid

----------------------------------------------------------------------------
(* Concurrency within one per-game stream *)

\* the j-th later task of game i has been spawned and has not finished
GameUnitPending(i, j) == games[i].gunits[j].pc \in {"spawned", "in_callback"}

\* C23: once the initial state of a per-game stream has been handled, a
\* per-game handler that has not finished never keeps the records after it
\* from being read and dispatched: whatever the number of pending tasks, the
\* per-game loop can take the next record off the stream and spawn its task
\* (as long as the model's budget of records lasts), and every other spawned
\* task can enter its callback
C23_PendingGameUnitNeverBlocks ==
    \A i \in 1..MaxEvents :
        \A j \in 1..Len(games[i].gunits) :
            (games[i].phase = "Streaming" /\ GameUnitPending(i, j)) =>
                /\ GameRecordsRead < MaxGameRecords => ENABLED SpawnGameUnit(i)
                /\ \A k \in 1..Len(games[i].gunits) :
                      (k # j /\ games[i].gunits[k].pc = "spawned"
                            /\ GameUnitArm(games[i].gunits[k].rec) # "panic")
                          => ENABLED EnterGameCallback(i, k)

\* two handlers of the same game are running at the same time
C23_Witness ==
    \E i \in 1..MaxEvents :
        /\ games[i].phase = "Streaming"
        /\ Len(games[i].gunits) = 2
        /\ games[i].gunits[1].pc = "in_callback"
        /\ games[i].gunits[2].pc = "in_callback"
        /\ games[i].gunits[1].rec.type = "GameState"
        /\ games[i].gunits[2].rec.type = "GameState"

----------------------------------------------------------------------------
(* Spawning follows the wire *)

\* one step of the top-level reader: the tasks spawned so far stay where they
\* are, each with its record, and at most one task is added, at the end, for
\* the record that comes next on the wire
BotReaderStep ==
    /\ Len(units') \in {Len(units), Len(units) + 1}
    /\ evPos' = Len(units')
    /\ \A k \in 1..Len(units) : units'[k].rec = units[k].rec
    /\ Len(units') = Len(units) + 1 =>
          /\ evLoop = "running"
          /\ units'[Len(units')].rec = evStream[Len(units')]
          /\ units'[Len(units')].pc = "spawned"

\* one step of the reader of game i: the first record is taken before any
\* task is spawned, and the tasks of the later records are added one at a
\* time, at the end, by the loop of that game only while it is running
GameReaderStep(i) ==
    LET g == games[i]
        h == games'[i]
    IN  /\ Len(h.gunits) \in {Len(g.gunits), Len(g.gunits) + 1}
        /\ \A j \in 1..Len(g.gunits) : h.gunits[j].rec = g.gunits[j].rec
        /\ g.first # EndOfStream => h.first = g.first
        /\ h.first # g.first => (g.phase = "AwaitFull" /\ g.gunits = <<>>)
        /\ Len(h.gunits) = Len(g.gunits) + 1 =>
              /\ g.phase = "Streaming"
              /\ g.first.type = "GameFull"
              /\ h.gunits[Len(h.gunits)].pc = "spawned"

\* C24: on the primary stream the k-th task holds the k-th record of the
\* wire, no record is skipped or taken twice, and the task of a record is
\* spawned before the task of the record after it; on a per-game stream the
\* first record is taken before any task is spawned and the tasks are added
\* in the order the records are read, one for each; the order in which the
\* tasks then run is not fixed
C24_SpawnedInWireOrder ==
    /\ [](/\ Len(units) = evPos
          /\ evPos <= Len(evStream)
          /\ \A k \in 1..Len(units) : units[k].rec = evStream[k])
    /\ [][BotReaderStep /\ \A i \in 1..MaxEvents : GameReaderStep(i)]_vars

\* the task of the second record of the primary stream has run a whole game
\* while the task of the first record has not started, and in that game the
\* task of the second later record finished before the first one started
C24_Witness ==
    /\ Len(units) = 2
    /\ units[1].pc = "spawned"
    /\ units[1].rec # BotDecodeErr
    /\ Len(botEvents) = 1
    /\ botEvents[1].unit = 2
    /\ Len(games[2].gunits) = 2
    /\ games[2].gunits[1].pc = "spawned"
    /\ games[2].gunits[2].pc = "done"

----------------------------------------------------------------------------
(* Propagation of fatal conditions *)

\* some task has panicked: a task of the top-level loop (its handler, its
\* record, or the per-game loop nested in it) or a task of a per-game loop
SomeUnitFailed ==
    \/ \E i \in 1..Len(units) : units[i].pc = "panicked"
    \/ \E i \in 1..MaxEvents : \E j \in 1..Len(games[i].gunits) :
          games[i].gunits[j].pc = "panicked"

\* C25: a panic is not contained in the task it happens in: a per-game loop
\* that has joined a panicked task has panicked itself, and the task it runs
\* in with it; the top-level loop that has joined a panicked task has
\* panicked; no loop returns, and run does not yield Ok, once a task below it
\* has panicked; and under fair scheduling a panic anywhere in a started run
\* ends with the top-level loop panicked and run panicking instead of
\* returning
C25_FatalConditionPropagates ==
    /\ [](\A i \in 1..MaxEvents :
            /\ \A j \in 1..Len(games[i].gunits) :
                  /\ (games[i].gunits[j].pc = "panicked" /\ games[i].gunits[j].joined)
                        => games[i].phase = "Panicked"
                  /\ games[i].gunits[j].pc = "panicked" => games[i].phase # "Done"
            /\ games[i].phase = "Panicked" => units[i].pc = "panicked"
            /\ (i <= Len(units) /\ units[i].pc = "panicked" /\ units[i].joined)
                  => evLoop = "panicked")
    /\ [](SomeUnitFailed => (evLoop # "done" /\ probe.pc # "ok"))
    /\ (probe.fn = "run" /\ SomeUnitFailed) ~>
            (evLoop = "panicked" /\ probe.pc = "loop_panicked")

\* a handler of a later record of a game panicked: the per-game loop, the
\* task of the GameStart event, the top-level loop and run have all panicked
C25_Witness ==
    /\ probe.fn = "run"
    /\ probe.pc = "loop_panicked"
    /\ evLoop = "panicked"
    /\ units[1].why = "join"
    /\ games[1].phase = "Panicked"
    /\ Len(games[1].gunits) = 1
    /\ games[1].gunits[1].why = "handler"

----------------------------------------------------------------------------
(* The end of a per-game loop *)

\* on_game_finish was called for the game id of the GameStart event of unit i
GameFinishDelivered(i) ==
    \E e \in 1..Len(botEvents) :
        /\ botEvents[e].cb = "on_game_finish"
        /\ botEvents[e].ev.id = units[i].rec.id

\* a GameState record of a game that is over
FinalState(r) ==
    r.type = "GameState" /\ StatusOfState(r.state) \notin {"Created", "Started"}

\* the game of unit i looks over: its GameFinish event was delivered, or its
\* stream carried a GameState that is not running or an OpponentGone record
LooksOver(i) ==
    \/ GameFinishDelivered(i)
    \/ \E j \in 1..Len(games[i].gunits) :
          FinalState(games[i].gunits[j].rec) \/ games[i].gunits[j].rec.type = "OpponentGone"

\* C26: a game that looks over does not stop its per-game loop: while the loop
\* is running it can still take the next record off its stream (as long as
\* the model's budget of records lasts) and every task it spawned can still
\* enter its callback; the loop has returned only with every record it read
\* dispatched to its callback
C26_LoopEndsWithStreamOnly ==
    \A i \in 1..Len(units) :
        LET g == games[i] IN
        LooksOver(i) =>
            /\ g.phase = "Streaming" =>
                  /\ GameRecordsRead < MaxGameRecords => ENABLED SpawnGameUnit(i)
                  /\ \A j \in 1..Len(g.gunits) :
                        (g.gunits[j].pc = "spawned" /\ GameUnitArm(g.gunits[j].rec) # "panic")
                            => ENABLED EnterGameCallback(i, j)
            /\ g.phase = "Done" =>
                  \A j \in 1..Len(g.gunits) : Cardinality(GameDeliveriesOf(i, j)) = 1

\* on_game_finish was called for the game, its stream carried OpponentGone
\* and then a GameState of a finished game: both were dispatched, in a loop
\* that went on until the stream ended
C26_Witness ==
    /\ Len(units) = 2
    /\ GameFinishDelivered(1)
    /\ games[1].phase = "Done"
    /\ Len(games[1].gunits) = 2
    /\ games[1].gunits[1].rec.type = "OpponentGone"
    /\ FinalState(games[1].gunits[2].rec)
    /\ Len(games[1].log) = 3
    /\ games[1].log[2].rec = 1
    /\ games[1].log[3].rec = 2

----------------------------------------------------------------------------
(* The inline handler of the initial state *)

\* C27: while the on_game_state of the state embedded in GameFull has not
\* returned, no later record of that per-game stream has been read or
\* dispatched and none can be: the only callback of the game is that one, and
\* its loop cannot take a record off the stream; the stall stays within that
\* game: the top-level loop can still spawn the task of its next record, and
\* the loop of any other game that is streaming can still read; and a later
\* record has been read only after the initial handler returned
C27_InitialHandlerInline ==
    \A i \in 1..MaxEvents :
        LET g == games[i] IN
        /\ g.phase = "FirstCallback" =>
              /\ units[i].pc = "game"
              /\ g.gunits = <<>>
              /\ Len(g.log) = 1
              /\ g.log[1].rec = 0
              /\ ~ENABLED SpawnGameUnit(i)
              /\ (evLoop = "running" /\ evPos < Len(evStream)) => ENABLED SpawnBotUnit
              /\ \A k \in 1..MaxEvents :
                    (k # i /\ games[k].phase = "Streaming" /\ GameRecordsRead < MaxGameRecords)
                        => ENABLED SpawnGameUnit(k)
        /\ g.gunits # <<>> => InitialStateHandled(i)

\* the initial handler of one game has not returned, and its stream stands
\* still, while another game has had a later record read and dispatched
C27_Witness ==
    /\ games[1].phase = "FirstCallback"
    /\ games[1].gunits = <<>>
    /\ games[2].phase = "Streaming"
    /\ Len(games[2].gunits) = 1
    /\ Len(games[2].log) = 2

----------------------------------------------------------------------------
(* A per-game stream that cannot be opened *)

\* the request for the per-game stream of unit i failed: no response at all,
\* or a response whose status is not 2xx
OpenFailed(i) == games[i].opened \in {"ReqwestError", "ApiError"}

\* C28: when opening the per-game stream of a GameStart event fails, the
\* failure is dropped: the task has finished normally, after its
\* on_game_start; no per-game loop was started, so no per-game callback was
\* called and no GameContext built for it; the request was made once and
\* never again; the top-level loop has not panicked unless some task
\* panicked, and while it runs it can still spawn the task of the next
\* record and return when the stream has ended
C28_FailedOpenIsDropped ==
    \A i \in 1..MaxEvents :
        LET g == games[i] IN
        /\ g.opened # "-" =>
              /\ i \in 1..Len(units)
              /\ OpensGameStream(units[i].rec)
              /\ Cardinality(RequestsOf(i)) = 1
              /\ \E e \in DeliveriesOf(i) : botEvents[e].cb = "on_game_start"
        /\ g.opened = "Ok" <=> g.phase # "none"
        /\ OpenFailed(i) =>
              /\ units[i].pc = "done"
              /\ units[i].why = "-"
              /\ g.phase = "none"
              /\ g.first = EndOfStream
              /\ g.log = <<>>
              /\ g.gunits = <<>>
              /\ g.built = 0
              /\ g.ctx = NoContext
              /\ ~ENABLED OpenGameStream(i)
              /\ evLoop = "panicked" => \E k \in 1..Len(units) : units[k].pc = "panicked"
              /\ (evLoop = "running" /\ evPos < Len(evStream)) => ENABLED SpawnBotUnit
              /\ (evLoop = "running" /\ evPos = Len(evStream) /\ Pending(units) = 0)
                    => ENABLED ReturnBotLoop

\* the stream of a game was refused with a status that is not 2xx; the event
\* after the GameStart was delivered and run_with_event_stream returned
C28_Witness ==
    /\ evLoop = "done"
    /\ Len(units) = 2
    /\ games[1].opened = "ApiError"
    /\ units[1].pc = "done"
    /\ Len(requests) = 1
    /\ Len(botEvents) = 2
    /\ botEvents[1].unit = 1
    /\ botEvents[2].unit = 2
    /\ botEvents[2].cb = "on_challenge"

----------------------------------------------------------------------------
(* A per-game stream without records *)

\* the per-game stream of unit i was opened and its first read has yielded
\* None
EndedBeforeFirstRecord(i) ==
    /\ games[i].opened = "Ok"
    /\ games[i].phase # "AwaitFull"
    /\ games[i].first = EndOfStream

\* C29: a per-game stream that ends before delivering any record is not an
\* error: run_with_game_event_stream has returned normally, and the task it
\* ran in has finished normally; no callback was called for the stream, no
\* GameContext was built and no task was spawned
C29_EmptyGameStreamReturns ==
    \A i \in 1..MaxEvents :
        EndedBeforeFirstRecord(i) =>
            /\ games[i].phase = "Done"
            /\ units[i].pc = "done"
            /\ units[i].why = "-"
            /\ games[i].log = <<>>
            /\ games[i].built = 0
            /\ games[i].ctx = NoContext
            /\ games[i].gunits = <<>>

\* the only game of the run had an empty stream, and run_with_event_stream
\* returned
C29_Witness ==
    /\ evLoop = "done"
    /\ Len(units) = 1
    /\ EndedBeforeFirstRecord(1)
    /\ games[1].phase = "Done"
    /\ Len(botEvents) = 1

----------------------------------------------------------------------------
(* color_of on every pair of seats *)

\* C30: color_of gives a result for every bot id and every pair of seats,
\* and the result is fixed by them: White exactly when the white seat carries
\* the bot's id, also when the black seat carries it too; Black exactly when
\* the black seat carries it and the white seat does not; None otherwise; a
\* seat without an id matches no bot id, so a game whose two seats have no id
\* gives None
C30_ColorOfTotal ==
    (probe.fn = "GameContext" /\ probe.done) =>
        LET color == probe.ctx.bot_color
            white == probe.info.white
            black == probe.info.black
        IN  /\ color \in {"White", "Black", "None"}
            /\ color = "White" <=> (white # NoId /\ white = probe.bot_id)
            /\ color = "Black" <=> (black # NoId /\ black = probe.bot_id /\ white # probe.bot_id)
            /\ (white = probe.bot_id /\ black = probe.bot_id) => color = "White"
            /\ white = NoId => color # "White"
            /\ black = NoId => color # "Black"
            /\ (white = NoId /\ black = NoId) => color = "None"

\* a game whose two seats have no id
C30_Witness ==
    /\ probe.fn = "GameContext"
    /\ probe.done
    /\ probe.info.white = NoId
    /\ probe.info.black = NoId
    /\ probe.ctx.bot_color = "None"

====
